---------------------------- MODULE Spec2Model ----------------------------
(***************************************************************************)
(* Model of the checkerboard connector (kingrow_connector.py): the framed  *)
(* stdio channel, the main message loop, the move resolver and the         *)
(* four-source move detection.                                             *)
(*                                                                         *)
(* Python strings are TLA+ strings (a character is a string of length 1),  *)
(* byte strings are sequences of integers 0..255, and Python/JSON values   *)
(* are tagged records (see the section "Python values").                   *)
(***************************************************************************)
EXTENDS Integers, Sequences, FiniteSets, TLC

(***************************************************************************)
(* Characters and text                                                     *)
(***************************************************************************)

\* The character at position j of text t ("" outside the text).
Ch(t, j) == IF j >= 1 /\ j <= Len(t) THEN SubSeq(t, j, j) ELSE ""

DigitChars == {"0", "1", "2", "3", "4", "5", "6", "7", "8", "9"}

LetterChars ==
    {"a", "b", "c", "d", "e", "f", "g", "h", "i", "j", "k", "l", "m",
     "n", "o", "p", "q", "r", "s", "t", "u", "v", "w", "x", "y", "z",
     "A", "B", "C", "D", "E", "F", "G", "H", "I", "J", "K", "L", "M",
     "N", "O", "P", "Q", "R", "S", "T", "U", "V", "W", "X", "Y", "Z"}

\* \w of the re module
WordChars == DigitChars \cup LetterChars \cup {"_"}

\* \s of the re module (the characters str.strip() removes as well)
SpaceChars == {" ", "\t", "\n", "\r"}

IsDigitAt(t, j) == Ch(t, j) \in DigitChars

\* \b at the gap before position j (j in 1..Len(t)+1)
Boundary(t, j) == (Ch(t, j - 1) \in WordChars) # (Ch(t, j) \in WordChars)

\* str.strip()
RECURSIVE LStrip(_)
LStrip(t) ==
    IF Len(t) > 0 /\ Ch(t, 1) \in SpaceChars
    THEN LStrip(SubSeq(t, 2, Len(t)))
    ELSE t

RECURSIVE RStrip(_)
RStrip(t) ==
    IF Len(t) > 0 /\ Ch(t, Len(t)) \in SpaceChars
    THEN RStrip(SubSeq(t, 1, Len(t) - 1))
    ELSE t

Strip(t) == RStrip(LStrip(t))

\* str.split(sep) for a one-character separator: a sequence of texts
RECURSIVE SplitFrom(_, _, _, _)
SplitFrom(t, sep, start, j) ==
    IF j > Len(t)
    THEN <<SubSeq(t, start, Len(t))>>
    ELSE IF Ch(t, j) = sep
         THEN <<SubSeq(t, start, j - 1)>> \o SplitFrom(t, sep, j + 1, j + 1)
         ELSE SplitFrom(t, sep, start, j + 1)

Split(t, sep) == SplitFrom(t, sep, 1, 1)

\* sep in t
Contains(t, sep) == \E j \in 1..Len(t) : Ch(t, j) = sep

\* str.replace(' ', '')
RECURSIVE RemoveSpaces(_)
RemoveSpaces(t) ==
    IF Len(t) = 0
    THEN t
    ELSE IF Ch(t, 1) = " "
         THEN RemoveSpaces(SubSeq(t, 2, Len(t)))
         ELSE Ch(t, 1) \o RemoveSpaces(SubSeq(t, 2, Len(t)))

(***************************************************************************)
(* The three move patterns.  A match is tried at one start position the    *)
(* way the backtracking matcher tries it (greedy first); the result is the *)
(* position just after the match, or 0 when nothing matches there.         *)
(***************************************************************************)

\* The first alternative that matches
FirstNonZero(a, b) == IF a # 0 THEN a ELSE b

\* (?:x\d{1,2})*\b from position j: an iteration with two digits, else one
\* with one digit, else no further iteration
RECURSIVE MoveStarEnd(_, _)
MoveStarEnd(t, j) ==
    FirstNonZero(
        IF Ch(t, j) = "x" /\ IsDigitAt(t, j + 1) /\ IsDigitAt(t, j + 2)
        THEN MoveStarEnd(t, j + 3) ELSE 0,
        FirstNonZero(
            IF Ch(t, j) = "x" /\ IsDigitAt(t, j + 1)
            THEN MoveStarEnd(t, j + 2) ELSE 0,
            IF Boundary(t, j) THEN j ELSE 0))

\* \d{1,2}(?:x\d{1,2})*\b from position k
MoveToEnd(t, k) ==
    FirstNonZero(
        IF IsDigitAt(t, k) /\ IsDigitAt(t, k + 1) THEN MoveStarEnd(t, k + 2) ELSE 0,
        IF IsDigitAt(t, k) THEN MoveStarEnd(t, k + 1) ELSE 0)

\* \d{a}[-x]\d{1,2}(?:x\d{1,2})*\b from position i
StandardFrom(t, i, a) ==
    IF /\ \A d \in 0..(a - 1) : IsDigitAt(t, i + d)
       /\ Ch(t, i + a) \in {"-", "x"}
    THEN MoveToEnd(t, i + a + 1) ELSE 0

\* r'\b\d{1,2}[-x]\d{1,2}(?:x\d{1,2})*\b' at start position i
StandardEnd(t, i) ==
    IF ~Boundary(t, i) THEN 0
    ELSE FirstNonZero(StandardFrom(t, i, 2), StandardFrom(t, i, 1))

\* r'\b[A-H][1-8][-x][A-H][1-8]\b' at start position i
AlgebraicEnd(t, i) ==
    IF /\ Boundary(t, i)
       /\ Ch(t, i) \in {"A", "B", "C", "D", "E", "F", "G", "H"}
       /\ Ch(t, i + 1) \in {"1", "2", "3", "4", "5", "6", "7", "8"}
       /\ Ch(t, i + 2) \in {"-", "x"}
       /\ Ch(t, i + 3) \in {"A", "B", "C", "D", "E", "F", "G", "H"}
       /\ Ch(t, i + 4) \in {"1", "2", "3", "4", "5", "6", "7", "8"}
       /\ Boundary(t, i + 5)
    THEN i + 5 ELSE 0

\* \s* is greedy and a space is never a separator or a digit, so the run of
\* spaces is taken whole: the position after the spaces starting at j
RECURSIVE SkipSpaces(_, _)
SkipSpaces(t, j) ==
    IF Ch(t, j) \in SpaceChars THEN SkipSpaces(t, j + 1) ELSE j

\* \d{1,2}\b from position k
SpacedTo(t, k) ==
    IF IsDigitAt(t, k) /\ IsDigitAt(t, k + 1) /\ Boundary(t, k + 2) THEN k + 2
    ELSE IF IsDigitAt(t, k) /\ Boundary(t, k + 1) THEN k + 1
    ELSE 0

\* [-x]\s*\d{1,2}\b from position s
SpacedSep(t, s) ==
    IF Ch(t, s) \in {"-", "x"} THEN SpacedTo(t, SkipSpaces(t, s + 1)) ELSE 0

\* \d{a}\s*[-x]\s*\d{1,2}\b from position i
SpacedFrom(t, i, a) ==
    IF \A d \in 0..(a - 1) : IsDigitAt(t, i + d)
    THEN SpacedSep(t, SkipSpaces(t, i + a)) ELSE 0

\* r'\b\d{1,2}\s*[-x]\s*\d{1,2}\b' at start position i
SpacedEnd(t, i) ==
    IF ~Boundary(t, i) THEN 0
    ELSE FirstNonZero(SpacedFrom(t, i, 2), SpacedFrom(t, i, 1))

\* The patterns of move_patterns, in list order
PatternEnd(p, t, i) ==
    CASE p = 1 -> StandardEnd(t, i)
      [] p = 2 -> AlgebraicEnd(t, i)
      [] p = 3 -> SpacedEnd(t, i)

\* The first start position >= pos with a match of pattern p (0: none)
RECURSIVE FirstStart(_, _, _)
FirstStart(p, t, pos) ==
    IF pos > Len(t) THEN 0
    ELSE IF PatternEnd(p, t, pos) # 0 THEN pos
    ELSE FirstStart(p, t, pos + 1)

\* re.findall(pattern, text): the non-overlapping matches, left to right
RECURSIVE FindAllFrom(_, _, _)

\* The match from s to e, and the matches after it
FindAllTo(p, t, s, e) == <<SubSeq(t, s, e - 1)>> \o FindAllFrom(p, t, e)

\* The matches from the one that starts at s on (s = 0: there is none)
FindAllAt(p, t, s) ==
    IF s = 0 THEN <<>> ELSE FindAllTo(p, t, s, PatternEnd(p, t, s))

FindAllFrom(p, t, pos) == FindAllAt(p, t, FirstStart(p, t, pos))

FindAll(p, t) == FindAllFrom(p, t, 1)

(***************************************************************************)
(* Python values.  None is PyNone (json null decodes to None); a dict is   *)
(* the sequence of its <<key, value>> items in insertion order.            *)
(***************************************************************************)

PyNone == [t |-> "null"]

PyBool(b) == [t |-> "bool", b |-> b]

PyNum(n) == [t |-> "num", n |-> n]

PyStr(s) == [t |-> "str", s |-> s]

PyArr(a) == [t |-> "arr", a |-> a]

PyObj(o) == [t |-> "obj", o |-> o]

\* bool(v), as `if not message` and `if engine_move` test it
Truthy(v) ==
    CASE v.t = "null" -> FALSE
      [] v.t = "bool" -> v.b
      [] v.t = "num"  -> v.n # 0
      [] v.t = "str"  -> Len(v.s) > 0
      [] v.t = "arr"  -> Len(v.a) > 0
      [] v.t = "obj"  -> Len(v.o) > 0

IsDict(v) == v.t = "obj"

HasKey(o, k) == \E i \in 1..Len(o) : o[i][1] = k

\* dict.get(key, default)
DictGet(v, k, default) ==
    IF HasKey(v.o, k)
    THEN v.o[CHOOSE i \in 1..Len(v.o) : v.o[i][1] = k][2]
    ELSE default

\* d[k] = x: an existing key keeps its place, a new key is appended
DictSet(o, k, x) ==
    IF HasKey(o, k)
    THEN [i \in 1..Len(o) |-> IF o[i][1] = k THEN <<k, x>> ELSE o[i]]
    ELSE Append(o, <<k, x>>)

(***************************************************************************)
(* Text <-> bytes.  json.dumps emits ASCII only (ensure_ascii), so each    *)
(* character is one byte.  Of the bytes >= 128 the model's inputs hold     *)
(* only 255, which no UTF-8 sequence contains.                             *)
(***************************************************************************)

\* The characters of codes 32..95 and 97..126, in code order (a string of
\* the model cannot hold the grave accent, code 96, which no text here uses)
AsciiLow ==
    " !\"#$%&'()*+,-./0123456789:;<=>?@ABCDEFGHIJKLMNOPQRSTUVWXYZ[\\]^_"

AsciiHigh == "abcdefghijklmnopqrstuvwxyz{|}~"

\* ord(c)
Ord(c) ==
    CASE c = "\t" -> 9
      [] c = "\n" -> 10
      [] c = "\r" -> 13
      [] \E i \in 1..Len(AsciiLow) : Ch(AsciiLow, i) = c ->
            31 + (CHOOSE i \in 1..Len(AsciiLow) : Ch(AsciiLow, i) = c)
      [] OTHER ->
            96 + (CHOOSE i \in 1..Len(AsciiHigh) : Ch(AsciiHigh, i) = c)

\* str.encode('utf-8') of an ASCII text
RECURSIVE Encode(_)
Encode(t) ==
    IF Len(t) = 0 THEN <<>>
    ELSE IF Len(t) = 1 THEN <<Ord(t)>>
    ELSE Encode(SubSeq(t, 1, Len(t) \div 2))
         \o Encode(SubSeq(t, Len(t) \div 2 + 1, Len(t)))

\* A byte that bytes.decode('utf-8') accepts and the JSON scanner can meet:
\* the other control characters are refused by the scanner inside and
\* outside a string, like an undecodable byte
DecodableByte(b) == b \in {9, 10, 13} \/ (b >= 32 /\ b <= 126 /\ b # 96)

Chr(b) ==
    CASE b = 9  -> "\t"
      [] b = 10 -> "\n"
      [] b = 13 -> "\r"
      [] b < 96 -> Ch(AsciiLow, b - 31)
      [] OTHER  -> Ch(AsciiHigh, b - 96)

\* bytes.decode('utf-8') of decodable bytes
RECURSIVE Decode(_)
Decode(bs) ==
    IF Len(bs) = 0 THEN ""
    ELSE IF Len(bs) = 1 THEN Chr(bs[1])
    ELSE Decode(SubSeq(bs, 1, Len(bs) \div 2))
         \o Decode(SubSeq(bs, Len(bs) \div 2 + 1, Len(bs)))

(***************************************************************************)
(* json.dumps                                                              *)
(***************************************************************************)

RECURSIVE NatText(_)
NatText(n) ==
    IF n < 10 THEN Ch("0123456789", n + 1)
    ELSE NatText(n \div 10) \o Ch("0123456789", (n % 10) + 1)

IntText(n) == IF n < 0 THEN "-" \o NatText(-n) ELSE NatText(n)

EscapeChar(c) ==
    CASE c = "\"" -> "\\\""
      [] c = "\\" -> "\\\\"
      [] c = "\n" -> "\\n"
      [] c = "\t" -> "\\t"
      [] c = "\r" -> "\\r"
      [] OTHER    -> c

RECURSIVE EscapeText(_)
EscapeText(s) ==
    IF Len(s) = 0 THEN ""
    ELSE IF Len(s) = 1 THEN EscapeChar(s)
    ELSE EscapeText(SubSeq(s, 1, Len(s) \div 2))
         \o EscapeText(SubSeq(s, Len(s) \div 2 + 1, Len(s)))

RECURSIVE DumpsText(_)
DumpsText(v) ==
    LET RECURSIVE Items(_, _)
        Items(a, i) ==
            IF i > Len(a) THEN ""
            ELSE (IF i > 1 THEN ", " ELSE "") \o DumpsText(a[i]) \o Items(a, i + 1)
        RECURSIVE Pairs(_, _)
        Pairs(o, i) ==
            IF i > Len(o) THEN ""
            ELSE (IF i > 1 THEN ", " ELSE "")
                 \o "\"" \o EscapeText(o[i][1]) \o "\": " \o DumpsText(o[i][2])
                 \o Pairs(o, i + 1)
    IN  CASE v.t = "null" -> "null"
          [] v.t = "bool" -> IF v.b THEN "true" ELSE "false"
          [] v.t = "num"  -> IntText(v.n)
          [] v.t = "str"  -> "\"" \o EscapeText(v.s) \o "\""
          [] v.t = "arr"  -> "[" \o Items(v.a, 1) \o "]"
          [] v.t = "obj"  -> "{" \o Pairs(v.o, 1) \o "}"

\* json.dumps(message).encode('utf-8')
Dumps(v) == Encode(DumpsText(v))

(***************************************************************************)
(* json.loads, for the JSON the model's streams hold: objects, arrays,     *)
(* strings, integers, true, false and null.  (Floats, \u escapes and the   *)
(* \b and \f escapes occur in no input of the model and are refused.)      *)
(* A parse result is [ok, v, pos]: pos is the position after the value.    *)
(***************************************************************************)

ParseFail == [ok |-> FALSE, v |-> PyNone, pos |-> 0]

ParseOk(v, pos) == [ok |-> TRUE, v |-> v, pos |-> pos]

StartsWith(t, i, lit) ==
    /\ i + Len(lit) - 1 <= Len(t)
    /\ SubSeq(t, i, i + Len(lit) - 1) = lit

\* The characters of a string literal after its opening quote
RECURSIVE ParseStringBody(_, _, _)
ParseStringBody(t, i, acc) ==
    LET c == Ch(t, i)
        e == Ch(t, i + 1)
    IN  IF i > Len(t) THEN ParseFail
        ELSE IF c = "\"" THEN ParseOk(PyStr(acc), i + 1)
        ELSE IF c = "\\"
             THEN IF e \in {"\"", "\\", "/"}
                  THEN ParseStringBody(t, i + 2, acc \o e)
                  ELSE IF e = "n" THEN ParseStringBody(t, i + 2, acc \o "\n")
                  ELSE IF e = "t" THEN ParseStringBody(t, i + 2, acc \o "\t")
                  ELSE IF e = "r" THEN ParseStringBody(t, i + 2, acc \o "\r")
                  ELSE ParseFail
        ELSE IF c \in {"\n", "\t", "\r"} THEN ParseFail
        ELSE ParseStringBody(t, i + 1, acc \o c)

\* The digits from position i on: <<value, position after them>>
RECURSIVE ParseDigits(_, _, _)
ParseDigits(t, i, acc) ==
    IF IsDigitAt(t, i)
    THEN ParseDigits(t, i + 1,
                     10 * acc + (CHOOSE d \in 0..9 : Ch("0123456789", d + 1) = Ch(t, i)))
    ELSE <<acc, i>>

\* -?(0|[1-9]\d*), an integer
ParseNumber(t, i) ==
    LET neg == Ch(t, i) = "-"
        s   == IF neg THEN i + 1 ELSE i
        r   == IF Ch(t, s) = "0" THEN <<0, s + 1>> ELSE ParseDigits(t, s, 0)
    IN  IF ~IsDigitAt(t, s) \/ Ch(t, r[2]) \in {".", "e", "E"}
        THEN ParseFail
        ELSE ParseOk(PyNum(IF neg THEN 0 - r[1] ELSE r[1]), r[2])

RECURSIVE ParseValue(_, _)
RECURSIVE ParseArrayRest(_, _, _)
RECURSIVE ParseObjectRest(_, _, _)

\* A value starting at position i
ParseValue(t, i) ==
    LET c == Ch(t, i)
    IN  CASE c = "{" ->
                LET j == SkipSpaces(t, i + 1)
                IN  IF Ch(t, j) = "}" THEN ParseOk(PyObj(<<>>), j + 1)
                    ELSE ParseObjectRest(t, j, <<>>)
          [] c = "[" ->
                LET j == SkipSpaces(t, i + 1)
                IN  IF Ch(t, j) = "]" THEN ParseOk(PyArr(<<>>), j + 1)
                    ELSE ParseArrayRest(t, j, <<>>)
          [] c = "\"" -> ParseStringBody(t, i + 1, "")
          [] c = "-" \/ c \in DigitChars -> ParseNumber(t, i)
          [] StartsWith(t, i, "null") -> ParseOk(PyNone, i + 4)
          [] StartsWith(t, i, "true") -> ParseOk(PyBool(TRUE), i + 4)
          [] StartsWith(t, i, "false") -> ParseOk(PyBool(FALSE), i + 5)
          [] OTHER -> ParseFail

\* The items of an array from position i (an item is expected there)
ParseArrayRest(t, i, acc) ==
    LET r == ParseValue(t, i)
        j == SkipSpaces(t, r.pos)
    IN  IF ~r.ok THEN ParseFail
        ELSE IF Ch(t, j) = ","
             THEN ParseArrayRest(t, SkipSpaces(t, j + 1), Append(acc, r.v))
        ELSE IF Ch(t, j) = "]" THEN ParseOk(PyArr(Append(acc, r.v)), j + 1)
        ELSE ParseFail

\* The members of an object from position i (a key is expected there)
ParseObjectRest(t, i, acc) ==
    LET k == IF Ch(t, i) = "\"" THEN ParseStringBody(t, i + 1, "") ELSE ParseFail
        c == SkipSpaces(t, k.pos)
        r == ParseValue(t, SkipSpaces(t, c + 1))
        j == SkipSpaces(t, r.pos)
    IN  IF ~k.ok \/ Ch(t, c) # ":" THEN ParseFail
        ELSE IF ~r.ok THEN ParseFail
        ELSE IF Ch(t, j) = ","
             THEN ParseObjectRest(t, SkipSpaces(t, j + 1), DictSet(acc, k.v.s, r.v))
        ELSE IF Ch(t, j) = "}"
             THEN ParseOk(PyObj(DictSet(acc, k.v.s, r.v)), j + 1)
        ELSE ParseFail

\* json.loads(message_bytes.decode('utf-8')): [ok, v]; ok is FALSE where the
\* decode or the parse raises
Loads(bs) ==
    IF \E i \in 1..Len(bs) : ~DecodableByte(bs[i])
    THEN [ok |-> FALSE, v |-> PyNone]
    ELSE LET t == Decode(bs)
             r == ParseValue(t, SkipSpaces(t, 1))
         IN  IF r.ok /\ SkipSpaces(t, r.pos) = Len(t) + 1
             THEN [ok |-> TRUE, v |-> r.v]
             ELSE [ok |-> FALSE, v |-> PyNone]

(***************************************************************************)
(* Framing: a 4-byte little-endian length, then the payload.  A stream is  *)
(* the sequence of the bytes still to be read; its end is end-of-stream.   *)
(***************************************************************************)

\* stream.read(n): the first n bytes, fewer at end-of-stream
Take(bs, n) == SubSeq(bs, 1, IF n < Len(bs) THEN n ELSE Len(bs))

Drop(bs, n) == SubSeq(bs, (IF n < Len(bs) THEN n ELSE Len(bs)) + 1, Len(bs))

\* A variant of ToLittleEndian: the length with its most significant byte
\* first
ToBigEndian(n) ==
    <<(n \div 16777216) % 256, (n \div 65536) % 256, (n \div 256) % 256, n % 256>>

\* len(encoded_content).to_bytes(4, byteorder='little'), for n < 2^32
ToLittleEndian(n) ==
    <<n % 256, (n \div 256) % 256, (n \div 65536) % 256, (n \div 16777216) % 256>>

RECURSIVE LittleEndianSum(_)
LittleEndianSum(raw) ==
    IF Len(raw) = 0 THEN 0
    ELSE raw[1] + 256 * LittleEndianSum(Tail(raw))

\* int.from_bytes(raw_length, byteorder='little'), of 1 to 4 bytes.  A
\* length of 2^31 or more is more than any stream here holds, and stands as
\* 2^31 - 1: the read that follows returns what is left of the stream
FromLittleEndian(raw) ==
    IF Len(raw) = 4 /\ raw[4] >= 128 THEN 2147483647
    ELSE LittleEndianSum(raw)

\* The bytes send_message writes for a message; nothing when to_bytes
\* raises OverflowError, for a length of 2^32 or more (the exception is
\* logged)
Frame(msg) ==
    LET payload == Dumps(msg)
    IN  IF Len(payload) \div 65536 >= 65536 THEN <<>>
        ELSE ToLittleEndian(Len(payload)) \o payload

\* send_message: the output stream after the call
send_message(out, msg) == out \o Frame(msg)

\* The value read_message returns:
\*   v    the value (PyNone at end-of-stream and after an exception)
\*   rest the stream after the call
\*   eof  the 4-byte read returned nothing
\*   err  an exception was caught and logged
ReadResult(v, rest, eof, err) == [v |-> v, rest |-> rest, eof |-> eof, err |-> err]

\* read_message from json.loads on
ReadParsed(parsed, rest) ==
    ReadResult(IF parsed.ok THEN parsed.v ELSE PyNone, rest, FALSE, ~parsed.ok)

\* read_message from the second read on
ReadPayload(after_length, message_length) ==
    ReadParsed(Loads(Take(after_length, message_length)),
               Drop(after_length, message_length))

\* A variant of read_message: without the test `if not raw_length`
read_message_without_eof_test(in) ==
    ReadPayload(Drop(in, 4), FromLittleEndian(Take(in, 4)))

\* read_message on stream `in`
read_message(in) ==
    IF Len(Take(in, 4)) = 0
    THEN ReadResult(PyNone, in, TRUE, FALSE)
    ELSE ReadPayload(Drop(in, 4), FromLittleEndian(Take(in, 4)))

(***************************************************************************)
(* The environment of the connector: what the operating system holds when  *)
(* a request is resolved.  A record env with the fields                    *)
(*   procRunning  a process named checkerboard.exe is running              *)
(*   overrideSet  CHECKERBOARD_PATH is set                                 *)
(*   exeAt        the locations where an executable exists, among          *)
(*                "override", "programfiles", "programfiles86", "cwd"      *)
(*   overrideNamed the name of the CHECKERBOARD_PATH executable contains   *)
(*                checkerboard.exe                                         *)
(*   popenOk      subprocess.Popen succeeds                                *)
(*   launches     the candidates given to Popen so far, in order: the      *)
(*                processes the connector started, which stay alive        *)
(*   window       a window with one of the known titles exists             *)
(*   calib        checkerboard_calibration.json (a file state)             *)
(*   logs         the 8 candidate log files, in path order (file states)   *)
(*   regions      the 4 screen regions, in list order (region states)      *)
(*   clipboard    the clipboard (a clipboard state)                        *)
(*   temps        the 3 temp files, in path order (file states)            *)
(***************************************************************************)

Absent == [st |-> "absent"]

\* exists, and open() or read() raises
Unreadable == [st |-> "unreadable"]

\* exists with this content; locked: os.remove raises
File(text, locked) == [st |-> "file", text |-> text, locked |-> locked]

\* capture_screen_region returned None
NoCapture == [st |-> "nocapture"]

\* importing or calling pytesseract raises
OcrFails == [st |-> "ocrfail"]

\* image_to_string returned this text
OcrText(text) == [st |-> "text", text |-> text]

\* pyperclip cannot be imported or paste() raises
ClipboardFails == [st |-> "fail"]

\* paste() returns `before`, and `after` one second later
Clipboard(before, after) == [st |-> "ok", before |-> before, after |-> after]

(***************************************************************************)
(* find_checkerboard_exe                                                   *)
(***************************************************************************)

\* common_paths[i] exists.  Entry 1 is CHECKERBOARD_PATH, or the bare name
\* "checkerboard.exe" (the file of entries 4 and 5) when the variable is unset
PathExists(env, i) ==
    CASE i = 1 -> IF env.overrideSet THEN "override" \in env.exeAt
                  ELSE "cwd" \in env.exeAt
      [] i = 2 -> "programfiles" \in env.exeAt
      [] i = 3 -> "programfiles86" \in env.exeAt
      [] i \in {4, 5} -> "cwd" \in env.exeAt

\* A variant of find_checkerboard_exe: the last existing path is launched
find_checkerboard_exe_last(env) ==
    LET existing == {i \in 1..5 : PathExists(env, i)}
        final    == CHOOSE i \in existing : \A j \in existing : i >= j
    IN  IF env.procRunning THEN [found |-> TRUE, launched |-> 0]
        ELSE IF existing = {} THEN [found |-> FALSE, launched |-> 0]
        ELSE IF env.popenOk THEN [found |-> TRUE, launched |-> final]
        ELSE [found |-> FALSE, launched |-> 0]

\* found: the value returned; launched: the index of the path given to Popen
\* (0: none)
find_checkerboard_exe(env) ==
    LET existing == {i \in 1..5 : PathExists(env, i)}
        first    == CHOOSE i \in existing : \A j \in existing : i <= j
    IN  IF env.procRunning THEN [found |-> TRUE, launched |-> 0]
        ELSE IF existing = {} THEN [found |-> FALSE, launched |-> 0]
        ELSE IF env.popenOk THEN [found |-> TRUE, launched |-> first]
        ELSE [found |-> FALSE, launched |-> 0]

(***************************************************************************)
(* Calibration and move execution                                          *)
(***************************************************************************)

\* The default coordinates of square n
DefaultPosition(n) ==
    LET r == (n - 1) \div 4
        c == (n - 1) % 4
    IN  <<(IF r % 2 = 0 THEN 50 ELSE 100) + 100 * c, 50 + 50 * r>>

\* load_calibration_data: a function from square numbers to coordinates.
\* The text of the calibration file is abstracted to the map it decodes to:
\* env.calib is Absent, Unreadable (open or json.load raises) or
\* [st |-> "file", map |-> square_positions with its keys as integers]
load_calibration_data(env) ==
    IF env.calib.st = "file" THEN env.calib.map
    ELSE [n \in 1..32 |-> DefaultPosition(n)]

\* int(s): [ok, n]; ok is FALSE where int raises ValueError
IntOfDigits(negative, digits, r) ==
    IF Len(digits) = 0 \/ r[2] # Len(digits) + 1
    THEN [ok |-> FALSE, n |-> 0]
    ELSE [ok |-> TRUE, n |-> IF negative THEN 0 - r[1] ELSE r[1]]

\* int accepts single underscores between digits
GroupedDigits(t) ==
    \A i \in 1..Len(t) :
        Ch(t, i) = "_" => (i > 1 /\ IsDigitAt(t, i - 1) /\ IsDigitAt(t, i + 1))

RECURSIVE WithoutUnderscores(_)
WithoutUnderscores(t) ==
    IF Len(t) = 0 THEN ""
    ELSE (IF Ch(t, 1) = "_" THEN "" ELSE Ch(t, 1))
         \o WithoutUnderscores(SubSeq(t, 2, Len(t)))

IntOfGrouped(negative, digits) ==
    IntOfDigits(negative, digits, ParseDigits(digits, 1, 0))

IntOfSigned(negative, digits) ==
    IF GroupedDigits(digits) THEN IntOfGrouped(negative, WithoutUnderscores(digits))
    ELSE [ok |-> FALSE, n |-> 0]

IntOfStripped(t) ==
    IF Ch(t, 1) \in {"+", "-"}
    THEN IntOfSigned(Ch(t, 1) = "-", SubSeq(t, 2, Len(t)))
    ELSE IntOfSigned(FALSE, t)

ParseInt(s) == IntOfStripped(Strip(s))

NoCoordinates == [ok |-> FALSE, from |-> <<>>, to |-> <<>>, jumps |-> <<>>]

\* square_positions.get(n): <<>> for None
PositionOf(square_positions, n) ==
    IF n \in DOMAIN square_positions THEN square_positions[n] ELSE <<>>

\* A variant of CoordinatesOf: the jumps are the fields between the first and
\* the last
CoordinatesWithInteriorJumps(square_positions, parts, from_square, to_square) ==
    IF ~from_square.ok \/ ~to_square.ok THEN NoCoordinates
    ELSE [ok    |-> TRUE,
          from  |-> PositionOf(square_positions, from_square.n),
          to    |-> PositionOf(square_positions, to_square.n),
          jumps |-> SubSeq(parts, 2, Len(parts) - 1)]

\* The lookups and the return statement of convert_move_to_coordinates
CoordinatesOf(square_positions, parts, from_square, to_square) ==
    IF ~from_square.ok \/ ~to_square.ok THEN NoCoordinates
    ELSE [ok    |-> TRUE,
          from  |-> PositionOf(square_positions, from_square.n),
          to    |-> PositionOf(square_positions, to_square.n),
          jumps |-> IF Len(parts) > 2 THEN Tail(parts) ELSE <<>>]

\* convert_move_to_coordinates from the split on
ConvertParts(square_positions, parts) ==
    CoordinatesOf(square_positions, parts,
                  ParseInt(parts[1]), ParseInt(parts[Len(parts)]))

\* convert_move_to_coordinates with the calibration data loaded; an empty
\* map makes list(square_positions.keys())[0] raise
ConvertWith(square_positions, move) ==
    IF DOMAIN square_positions = {} THEN NoCoordinates
    ELSE ConvertParts(square_positions,
                      IF Contains(move, "x") THEN Split(move, "x")
                      ELSE Split(move, "-"))

\* convert_move_to_coordinates(move), move a text.  ok is FALSE for the
\* result (None, None, []) of the except branch; from and to are <<>> for
\* None (a square missing from the map)
convert_move_to_coordinates(move, env) ==
    ConvertWith(load_calibration_data(env), move)

\* The click of one jump square, none when the square has no coordinates
JumpClick(jump_coords) ==
    IF jump_coords # <<>> THEN <<jump_coords>> ELSE <<>>

\* The clicks of the jump loop: one per jump square that has coordinates
RECURSIVE JumpClicks(_, _)
JumpClicks(jumps, env) ==
    IF Len(jumps) = 0 THEN <<>>
    ELSE JumpClick(convert_move_to_coordinates("1-" \o Head(jumps), env).to)
         \o JumpClicks(Tail(jumps), env)

\* The error logged for one conversion, none when it succeeded
ConvertError(c) == IF c.ok THEN <<>> ELSE <<"convert">>

\* The errors logged in the jump loop: one per jump square that cannot be
\* converted
RECURSIVE JumpErrors(_, _)
JumpErrors(jumps, env) ==
    IF Len(jumps) = 0 THEN <<>>
    ELSE ConvertError(convert_move_to_coordinates("1-" \o Head(jumps), env))
         \o JumpErrors(Tail(jumps), env)

\* A variant of ExecuteConverted: the destination is clicked after the jumps
ExecuteWithFinalClick(c, env) ==
    IF c.ok /\ c.from # <<>> /\ c.to # <<>>
    THEN [ok |-> TRUE,
          clicks |-> <<c.from>> \o JumpClicks(c.jumps, env) \o <<c.to>>,
          errors |-> JumpErrors(c.jumps, env)]
    ELSE [ok |-> FALSE, clicks |-> <<>>,
          errors |-> ConvertError(c) \o <<"execute">>]

\* A variant of ExecuteConverted: the origin is clicked before the destination
\* is tested
ExecuteFromBeforeTest(c, env) ==
    IF c.ok /\ c.from # <<>>
    THEN [ok |-> c.to # <<>>,
          clicks |-> <<c.from>> \o
                     (IF Len(c.jumps) > 0 THEN JumpClicks(c.jumps, env)
                      ELSE JumpClick(c.to)),
          errors |-> IF c.to # <<>> THEN <<>> ELSE <<"execute">>]
    ELSE [ok |-> FALSE, clicks |-> <<>>,
          errors |-> ConvertError(c) \o <<"execute">>]

\* execute_move_in_checkerboard from the test of from_coords and to_coords on
ExecuteConverted(c, env) ==
    IF c.ok /\ c.from # <<>> /\ c.to # <<>>
    THEN [ok |-> TRUE,
          clicks |-> <<c.from>> \o
                     (IF Len(c.jumps) > 0 THEN JumpClicks(c.jumps, env)
                      ELSE <<c.to>>),
          errors |-> IF Len(c.jumps) > 0 THEN JumpErrors(c.jumps, env) ELSE <<>>]
    ELSE [ok |-> FALSE, clicks |-> <<>>,
          errors |-> ConvertError(c) \o <<"execute">>]

\* execute_move_in_checkerboard(move), move a Python value: ok is the value
\* returned, clicks the coordinates clicked (relative to the window origin),
\* errors the origin of each logging.error entry, in order.
\* A value that is not a string makes `'x' in move` raise inside
\* convert_move_to_coordinates, which returns (None, None, [])
execute_move_in_checkerboard(move, env) ==
    ExecuteConverted(IF move.t = "str" THEN convert_move_to_coordinates(move.s, env)
                     ELSE NoCoordinates,
                     env)

\* wait_for_engine_response: sleeps, leaves the polling loop after 3 seconds
\* and returns True
wait_for_engine_response == TRUE

(***************************************************************************)
(* Move detection                                                          *)
(***************************************************************************)

\* The first source that yields a value
FirstFound(m, rest) == IF m # PyNone THEN m ELSE rest

\* The match of the standard pattern that starts at s (s = 0: no match)
MatchAt(t, s) ==
    IF s = 0 THEN PyNone ELSE PyStr(SubSeq(t, s, StandardEnd(t, s) - 1))

\* re.search(standard pattern, t): the match as a Python value, None without
search_move(t) == MatchAt(t, FirstStart(1, t, 1))

\* A variant of LastLines: the whole file is scanned
AllLines(lines) == lines

\* lines[-5:]
LastLines(lines) ==
    SubSeq(lines, (IF Len(lines) > 5 THEN Len(lines) - 5 ELSE 0) + 1, Len(lines))

\* The scan `for line in reversed(lines[-5:])` from line i downwards
RECURSIVE ScanLinesFrom(_, _)
ScanLinesFrom(lines, i) ==
    IF i = 0 THEN PyNone
    ELSE FirstFound(search_move(Strip(lines[i])), ScanLinesFrom(lines, i - 1))

ScanLines(lines) == ScanLinesFrom(lines, Len(lines))

\* The body of the loop over move_log_paths for one file
scan_log_file(file) ==
    IF file.st # "file" THEN PyNone
    ELSE ScanLines(LastLines(Split(Strip(file.text), "\n")))

\* Method 1: the loop over move_log_paths from path i on
RECURSIVE scan_log_files(_, _)
scan_log_files(logs, i) ==
    IF i > Len(logs) THEN PyNone
    ELSE FirstFound(scan_log_file(logs[i]), scan_log_files(logs, i + 1))

\* A variant of LatestMove: the first match is taken
EarliestMove(matches) ==
    IF Len(matches) > 0 THEN PyStr(RemoveSpaces(matches[1])) ELSE PyNone

\* matches[-1].replace(' ', ''), None when there is no match
LatestMove(matches) ==
    IF Len(matches) > 0 THEN PyStr(RemoveSpaces(matches[Len(matches)])) ELSE PyNone

\* The loop over move_patterns on one recognized text, from pattern p on
RECURSIVE match_patterns(_, _)
match_patterns(text, p) ==
    IF p > 3 THEN PyNone
    ELSE FirstFound(LatestMove(FindAll(p, text)), match_patterns(text, p + 1))

\* The body of the loop over regions_to_check for one region
scan_region(region) ==
    IF region.st = "text" THEN match_patterns(region.text, 1) ELSE PyNone

\* The loop over regions_to_check from region i on
RECURSIVE scan_regions(_, _)
scan_regions(regions, i) ==
    IF i > Len(regions) THEN PyNone
    ELSE FirstFound(scan_region(regions[i]), scan_regions(regions, i + 1))

\* Method 2
detect_move_from_screen(env) ==
    IF ~env.window THEN PyNone ELSE scan_regions(env.regions, 1)

\* A variant of monitor_clipboard_for_move: the content read after the wait
\* is searched whether or not it changed
search_clipboard(env) ==
    IF env.clipboard.st # "ok" THEN PyNone
    ELSE search_move(env.clipboard.after)

\* Method 3
monitor_clipboard_for_move(env) ==
    IF env.clipboard.st # "ok" THEN PyNone
    ELSE IF env.clipboard.after # env.clipboard.before
         THEN search_move(env.clipboard.after)
         ELSE PyNone

\* The move of one temp file, None when it is absent or unreadable, holds no
\* move or cannot be removed
scan_temp_file(file) ==
    IF file.st = "file" /\ ~file.locked THEN search_move(Strip(file.text))
    ELSE PyNone

\* A variant of TempResult: the temp file is left in place
TempResultKept(temps, i, m, rest) ==
    IF m # PyNone THEN [move |-> m, temps |-> temps] ELSE rest

\* Method 4: the loop over temp_paths from path i on.  move: the value
\* returned (None: the loop ended); temps: the temp files after the loop
TempResult(temps, i, m, rest) ==
    IF m # PyNone THEN [move |-> m, temps |-> [temps EXCEPT ![i] = Absent]]
    ELSE rest

RECURSIVE scan_temp_files(_, _)
scan_temp_files(temps, i) ==
    IF i > Len(temps) THEN [move |-> PyNone, temps |-> temps]
    ELSE TempResult(temps, i, scan_temp_file(temps[i]), scan_temp_files(temps, i + 1))

\* The result of get_engine_move.  move: the value returned; env: the
\* environment after the call; tried: the methods run, in the order they ran
Detected(move, env, tried) == [move |-> move, env |-> env, tried |-> tried]

\* Method 4 and the end of get_engine_move
DetectFromTemp(env, temp) ==
    Detected(temp.move, [env EXCEPT !.temps = temp.temps],
             <<"log", "screen", "clipboard", "temp">>)

\* Method 3 and what follows it
DetectFromClipboard(env, clipboard_move) ==
    IF Truthy(clipboard_move)
    THEN Detected(clipboard_move, env, <<"log", "screen", "clipboard">>)
    ELSE DetectFromTemp(env, scan_temp_files(env.temps, 1))

\* A variant of DetectFromScreen: a screen capture that cannot run (no
\* window) ends the detection
DetectFromScreenOrAbort(env, screen_move) ==
    IF Truthy(screen_move)
    THEN Detected(screen_move, env, <<"log", "screen">>)
    ELSE IF ~env.window
    THEN Detected(PyNone, env, <<"log", "screen">>)
    ELSE DetectFromClipboard(env, monitor_clipboard_for_move(env))

\* Method 2 and what follows it
DetectFromScreen(env, screen_move) ==
    IF Truthy(screen_move)
    THEN Detected(screen_move, env, <<"log", "screen">>)
    ELSE DetectFromClipboard(env, monitor_clipboard_for_move(env))

\* A variant of DetectFromLog: the screen is consulted before the log files
DetectFromScreenThenLog(env, log_move) ==
    IF Truthy(detect_move_from_screen(env))
    THEN Detected(detect_move_from_screen(env), env, <<"screen">>)
    ELSE IF log_move # PyNone
    THEN Detected(log_move, env, <<"screen", "log">>)
    ELSE DetectFromClipboard(env, monitor_clipboard_for_move(env))

\* A variant of DetectFromLog: the temp files are cleaned up when a log file
\* yields the move
DetectFromLogAndCleanUp(env, log_move) ==
    IF log_move # PyNone
    THEN Detected(log_move,
                  [env EXCEPT !.temps = scan_temp_files(env.temps, 1).temps],
                  <<"log">>)
    ELSE DetectFromScreen(env, detect_move_from_screen(env))

\* Method 1 and what follows it
DetectFromLog(env, log_move) ==
    IF log_move # PyNone
    THEN Detected(log_move, env, <<"log">>)
    ELSE DetectFromScreen(env, detect_move_from_screen(env))

get_engine_move(env) == DetectFromLog(env, scan_log_files(env.logs, 1))

(***************************************************************************)
(* get_checkerboard_move(opponent_move, history)                           *)
(*   move   the value returned                                             *)
(*   env    the environment after the call                                 *)
(*   steps  the steps run, in order                                        *)
(*   clicks the coordinates clicked                                        *)
(***************************************************************************)

\* A variant of DefaultMove: no default
NoDefaultMove == PyNone

\* The move returned when no engine move is available
DefaultMove == PyStr("1-5")

Resolved(move, env, steps, clicks) ==
    [move |-> move, env |-> env, steps |-> steps, clicks |-> clicks]

\* The environment after find_checkerboard_exe: a launched executable is a
\* running process, which the next process scan finds if its name contains
\* checkerboard.exe
AfterLaunch(env, launched) ==
    IF launched = 0 THEN env
    ELSE [env EXCEPT !.launches = Append(@, launched),
                     !.procRunning =
                        IF launched = 1 /\ env.overrideSet /\ ~env.overrideNamed
                        THEN @ ELSE TRUE]

\* A variant of ResolveDetected: the value of get_engine_move is returned as
\* it is
ResolveDetectedAsIs(clicks, detected) ==
    Resolved(detected.move, detected.env,
             <<"find", "execute", "wait">> \o detected.tried, clicks)

\* The end of get_checkerboard_move: engine_move = get_engine_move()
ResolveDetected(clicks, detected) ==
    Resolved(IF Truthy(detected.move) THEN detected.move ELSE DefaultMove,
             detected.env,
             <<"find", "execute", "wait">> \o detected.tried,
             clicks)

\* A variant of ResolveWaited: the default is returned after the wait without
\* get_engine_move
ResolveWaitedWithoutDetection(env, clicks, waited) ==
    Resolved(DefaultMove, env, <<"find", "execute", "wait">>, clicks)

\* get_checkerboard_move from wait_for_engine_response on
ResolveWaited(env, clicks, waited) ==
    IF ~waited
    THEN Resolved(DefaultMove, env, <<"find", "execute", "wait">>, clicks)
    ELSE ResolveDetected(clicks, get_engine_move(env))

\* A variant of ResolveExecuted: the resolution goes on after an execution
\* that failed
ResolveExecutedOrNot(env, executed) ==
    ResolveWaited(env, executed.clicks, wait_for_engine_response)

\* get_checkerboard_move after execute_move_in_checkerboard returned
ResolveExecuted(env, executed) ==
    IF ~executed.ok
    THEN Resolved(DefaultMove, env, <<"find", "execute">>, <<>>)
    ELSE ResolveWaited(env, executed.clicks, wait_for_engine_response)

\* get_checkerboard_move after find_checkerboard_exe returned, in the
\* environment the call left
ResolveFound(opponent_move, env, found) ==
    IF ~found
    THEN Resolved(DefaultMove, env, <<"find">>, <<>>)
    ELSE ResolveExecuted(env, execute_move_in_checkerboard(opponent_move, env))

ResolveWith(opponent_move, env, exe) ==
    ResolveFound(opponent_move, AfterLaunch(env, exe.launched), exe.found)

get_checkerboard_move(opponent_move, env) ==
    ResolveWith(opponent_move, env, find_checkerboard_exe(env))

(***************************************************************************)
(* The move relay (move_relay.py): an HTTP server whose handler class is   *)
(* MoveHandler.  A request is [method, hasLength, length, body]: length is *)
(* the text of its Content-Length header when hasLength, body the bytes    *)
(* that follow the headers.  A response is [status, cors, obj]: cors tells *)
(* that it carries the headers written by _send, obj is the JSON object of *)
(* its body (PyNone: no JSON body).                                        *)
(***************************************************************************)

\* The methods class MoveHandler defines.  do_POST is defined after the class
\* at module level, so it is a function of the module and no method
MoveHandlerMethods == {"_send", "do_OPTIONS"}

\* MoveHandler._send(code, obj)
_send(code, obj) == [status |-> code, cors |-> TRUE, obj |-> obj]

\* BaseHTTPRequestHandler.send_error(code): an error page without the headers
\* of _send
send_error(code) == [status |-> code, cors |-> FALSE, obj |-> PyNone]

\* {'error': text}
ErrorObj(text) == PyObj(<< <<"error", PyStr(text)>> >>)

\* What handling one request did: the response written and the argument of
\* the thread started (PyNone: no thread)
Outcome(response, start) == [response |-> response, start |-> start]

\* type(v).__name__
TypeName(v) ==
    CASE v.t = "null" -> "NoneType"
      [] v.t = "bool" -> "bool"
      [] v.t = "num"  -> "int"
      [] v.t = "str"  -> "str"
      [] v.t = "arr"  -> "list"
      [] v.t = "obj"  -> "dict"

\* do_POST from move = data.get('move') on; data.get raises AttributeError
\* on a value that is no dict
PostData(data) ==
    IF ~IsDict(data)
    THEN Outcome(_send(500, ErrorObj("'" \o TypeName(data)
                                     \o "' object has no attribute 'get'")),
                 PyNone)
    ELSE IF ~Truthy(DictGet(data, "move", PyNone))
    THEN Outcome(_send(400, ErrorObj("No move in request")), PyNone)
    ELSE Outcome(_send(200, PyObj(<< <<"status", PyStr("ok")>> >>)),
                 DictGet(data, "move", PyNone))

\* do_POST from json.loads on, for a body of decodable bytes
PostBody(loaded) ==
    IF ~loaded.ok THEN Outcome(_send(400, ErrorObj("Invalid JSON")), PyNone)
    ELSE PostData(loaded.v)

\* do_POST from the test of length on; int raises ValueError on a text that
\* is no number
PostLength(request, length) ==
    IF ~length.ok
    THEN Outcome(_send(500, ErrorObj("invalid literal for int() with base 10: '"
                                     \o request.length \o "'")),
                 PyNone)
    ELSE IF length.n = 0
    THEN Outcome(_send(400, ErrorObj("Empty request")), PyNone)
    ELSE PostBody(Loads(Take(request.body, length.n)))

\* do_POST(self), the function of the module
do_POST(request) ==
    PostLength(request,
               IF request.hasLength THEN ParseInt(request.length)
               ELSE [ok |-> TRUE, n |-> 0])

\* MoveHandler.do_OPTIONS
do_OPTIONS == Outcome(_send(200, PyNone), PyNone)

\* BaseHTTPRequestHandler.handle_one_request for a handler of class
\* MoveHandler: the method do_<command> is called if the class has one, and
\* the request is answered with 501 otherwise
handle_one_request(request) ==
    IF ("do_" \o request.method) \notin MoveHandlerMethods
    THEN Outcome(send_error(501), PyNone)
    ELSE IF request.method = "OPTIONS" THEN do_OPTIONS
    ELSE do_POST(request)

\* A thread that has just been started on run_move_sequence(move)
NewWorker(move) == [move |-> move, at |-> "find", tries |-> 0]

\* The relay after one request was handled
Served(rl, request, outcome) ==
    [rl EXCEPT !.responses = Append(@, [request |-> request,
                                        response |-> outcome.response]),
               !.workers = IF outcome.start = PyNone THEN @
                           ELSE Append(@, NewWorker(outcome.start))]

\* run_move_sequence: one pass of the loop that looks for the window
FindWindow(rl, w, window) ==
    IF window THEN [rl EXCEPT !.workers[w].at = "click"]
    ELSE IF rl.workers[w].tries < 2
    THEN [rl EXCEPT !.workers[w].tries = @ + 1]
    ELSE [rl EXCEPT !.workers[w].at = "done",
                    !.workers[w].tries = @ + 1,
                    !.errors = Append(@, "CheckerBoard window not found")]

\* run_move_sequence: pyautogui.click, pyautogui.write, pyautogui.press
Automate(rl, w, act, then) ==
    [rl EXCEPT !.workers[w].at = then,
               !.ui = Append(@, [w |-> w, act |-> act,
                                 move |-> rl.workers[w].move])]

\* The next step of the thread w of run_move_sequence
run_move_sequence(rl, w, window) ==
    CASE rl.workers[w].at = "find"  -> FindWindow(rl, w, window)
      [] rl.workers[w].at = "click" -> Automate(rl, w, "click", "write")
      [] rl.workers[w].at = "write" -> Automate(rl, w, "write", "enter")
      [] rl.workers[w].at = "enter" -> Automate(rl, w, "enter", "done")

(***************************************************************************)
(* State                                                                   *)
(***************************************************************************)

VARIABLES
    stdin,      \* main: the bytes of standard input not read yet
    stdout,     \* main: the bytes written to standard output
    pc,         \* main: "read" (at read_message), "handle" (a message was
                \*       read and is truthy) or "stopped" (main returned)
    message,    \* main: the value read_message returned last
    env,        \* the environment (see above)
    errlog,     \* main: the origin of each logging.error entry, in order
    events,     \* main, history: the frames read and the responses sent
    last,       \* main, history: the last message handled, the environment
                \*       it was handled in and the response sent for it
    pipe,       \* framing: the bytes written by send_message and not read yet
    sent,       \* framing, history: the messages given to send_message
    received,   \* framing, history: the values read_message returned
    result,     \* harnesses: the last call of the function under test
    relay       \* move relay: the responses sent, the threads started, the
                \*       clicks and keystrokes made and the errors logged

vars == <<stdin, stdout, pc, message, env, errlog, events, last,
          pipe, sent, received, result, relay>>

mainVars == <<stdin, stdout, pc, message, errlog, events, last>>

frameVars == <<pipe, sent, received>>

(***************************************************************************)
(* Inputs                                                                  *)
(***************************************************************************)

\* The most frames on standard input
MaxFrames == 3

\* The most messages written to the pipe of the framing harness
MaxSent == 3

\* The most calls of the resolver in one environment
MaxCalls == 2

NumLogPaths == 8

NumRegions == 4

NumTempPaths == 3

\* {"command": "getMove", "currentMove": <move>, "history": []}
GetMoveMessage(move) ==
    PyObj(<< <<"command", PyStr("getMove")>>,
             <<"currentMove", PyStr(move)>>,
             <<"history", PyArr(<<>>)>> >>)

\* {"command": "getMove"}: currentMove defaults to ''
BareGetMoveMessage == PyObj(<< <<"command", PyStr("getMove")>> >>)

\* {"command": "get_best_move", "opponent_move": "12-16", "game_history": []}
ScenarioAMessage ==
    PyObj(<< <<"command", PyStr("get_best_move")>>,
             <<"opponent_move", PyStr("12-16")>>,
             <<"game_history", PyArr(<<>>)>> >>)

\* {"command": "ping"}
UnknownCommandMessage == PyObj(<< <<"command", PyStr("ping")>> >>)

\* A frame whose payload is not UTF-8
UndecodableFrame == ToLittleEndian(2) \o <<255, 125>>

\* A frame whose payload is UTF-8 and not JSON
BadJsonFrame == ToLittleEndian(1) \o Encode("{")

\* Two bytes where a 4-byte length is expected
TruncatedPrefix == <<7, 0>>

\* A frame whose length prefix is 0: no payload
ZeroLengthFrame == ToLittleEndian(0)

WellFormedFrames ==
    {Frame(GetMoveMessage("12-16")), Frame(BareGetMoveMessage),
     Frame(ScenarioAMessage), Frame(UnknownCommandMessage)}

Frames ==
    WellFormedFrames
    \cup {UndecodableFrame, BadJsonFrame, TruncatedPrefix, ZeroLengthFrame}

\* The byte streams made of at most n frames
RECURSIVE StreamsOf(_)
StreamsOf(n) ==
    IF n = 0 THEN {<<>>}
    ELSE LET shorter == StreamsOf(n - 1)
         IN  shorter \cup {f \o s : f \in Frames, s \in shorter}

Streams == StreamsOf(MaxFrames)

\* The engine runs, its window is open, the default calibration is in use
\* and no detection source holds anything
QuietEnv ==
    [procRunning |-> TRUE, overrideSet |-> FALSE, overrideNamed |-> FALSE,
     exeAt |-> {}, popenOk |-> TRUE, launches |-> <<>>, window |-> TRUE,
     calib |-> Absent,
     logs |-> [i \in 1..NumLogPaths |-> Absent],
     regions |-> [i \in 1..NumRegions |-> OcrText("")],
     clipboard |-> Clipboard("", ""),
     temps |-> [i \in 1..NumTempPaths |-> Absent]]

\* A calibration file that lacks the squares of `missing`
CalibrationWithout(missing) ==
    [st |-> "file", map |-> [n \in (1..32) \ missing |-> DefaultPosition(n)]]

\* No engine runs and CHECKERBOARD_PATH names an existing executable whose
\* file name does not contain checkerboard.exe
OverrideEnv ==
    [QuietEnv EXCEPT !.procRunning = FALSE, !.overrideSet = TRUE,
                     !.exeAt = {"override"}]

\* The environments of the main loop
MainEnvs ==
    {QuietEnv,
     [QuietEnv EXCEPT !.procRunning = FALSE],
     [QuietEnv EXCEPT !.procRunning = FALSE, !.exeAt = {"cwd"}],
     OverrideEnv,
     [QuietEnv EXCEPT !.calib = CalibrationWithout({16})],
     [QuietEnv EXCEPT !.logs[2] = File("1. 11-15 22-18\n2. 8-11", FALSE)],
     [QuietEnv EXCEPT !.regions[1] = OcrText("Move: A3-B4")],
     [QuietEnv EXCEPT !.temps[1] = File("9-14\n", FALSE)]}

(***************************************************************************)
(* main: the message loop                                                  *)
(***************************************************************************)

NoLast == [msg |-> PyNone, env |-> QuietEnv, resp |-> PyNone]

NoResult == [calls |-> 0]

\* The move relay before the first request
NoRelay == [responses |-> <<>>, workers |-> <<>>, ui |-> <<>>, errors |-> <<>>]

\* The number of frames read so far
NumReads == Cardinality({i \in 1..Len(events) : events[i].e = "read"})

Init ==
    /\ stdin \in Streams
    /\ stdout = <<>>
    /\ pc = "read"
    /\ message = PyNone
    /\ env \in MainEnvs
    /\ errlog = <<>>
    /\ events = <<>>
    /\ last = NoLast
    /\ pipe = <<>>
    /\ sent = <<>>
    /\ received = <<>>
    /\ result = NoResult
    /\ relay = NoRelay

\* message = read_message(); if not message: break
ReadWith(r) ==
    /\ stdin' = r.rest
    /\ message' = r.v
    /\ errlog' = IF r.err THEN Append(errlog, "read_message") ELSE errlog
    /\ events' = Append(events,
                        [e |-> "read", k |-> NumReads + 1, eof |-> r.eof,
                         err |-> r.err, msg |-> r.v])
    /\ pc' = IF Truthy(r.v) THEN "handle" ELSE "stopped"

ReadStep ==
    /\ pc = "read"
    /\ ReadWith(read_message(stdin))
    /\ UNCHANGED <<stdout, env, last, pipe, sent, received, result, relay>>

\* A variant of Respond: nothing is written when the move is the default
RespondUnlessDefault(best_move, response) ==
    /\ stdout' = IF best_move.move = PyStr("1-5") THEN stdout
                 ELSE send_message(stdout, response)
    /\ env' = best_move.env
    /\ events' = IF best_move.move = PyStr("1-5") THEN events
                 ELSE Append(events, [e |-> "send", k |-> NumReads, env |-> env,
                                      resp |-> response])
    /\ last' = [msg |-> message, env |-> env, resp |-> response]
    /\ pc' = "read"
    /\ UNCHANGED errlog

\* response = {'move': best_move}; send_message(response)
Respond(best_move, response) ==
    /\ stdout' = send_message(stdout, response)
    /\ env' = best_move.env
    /\ events' = Append(events, [e |-> "send", k |-> NumReads, env |-> env,
                                 resp |-> response])
    /\ last' = [msg |-> message, env |-> env, resp |-> response]
    /\ pc' = "read"
    /\ UNCHANGED errlog

RespondWith(best_move) ==
    Respond(best_move, PyObj(<< <<"move", best_move.move>> >>))

\* The rest of the loop body: the command test, get_checkerboard_move and
\* send_message.  message.get raises on a value that is not a dict; the
\* except clause of main logs it and main returns
HandleStep ==
    /\ pc = "handle"
    /\ IF ~IsDict(message)
       THEN /\ pc' = "stopped"
            /\ errlog' = Append(errlog, "main")
            /\ last' = [msg |-> message, env |-> env, resp |-> PyNone]
            /\ UNCHANGED <<stdout, env, events>>
       ELSE IF DictGet(message, "command", PyNone) = PyStr("getMove")
       THEN RespondWith(get_checkerboard_move(
                            DictGet(message, "currentMove", PyStr("")), env))
       ELSE /\ pc' = "read"
            /\ last' = [msg |-> message, env |-> env, resp |-> PyNone]
            /\ UNCHANGED <<stdout, env, errlog, events>>
    /\ UNCHANGED <<stdin, message, pipe, sent, received, result, relay>>

Next == ReadStep \/ HandleStep

Spec == Init /\ [][Next]_vars

(***************************************************************************)
(* The main loop on well-formed frames of any JSON value                   *)
(***************************************************************************)

\* The frames of {}, [], 0, false, null, "", [1], 7 and of a getMove request
ValueFrames ==
    {Frame(PyObj(<<>>)), Frame(PyArr(<<>>)), Frame(PyNum(0)),
     Frame(PyBool(FALSE)), Frame(PyNone), Frame(PyStr("")),
     Frame(PyArr(<<PyNum(1)>>)), Frame(PyNum(7)), Frame(BareGetMoveMessage)}

\* The streams of one to three of these frames
ValueStreams ==
    ValueFrames
    \cup {f \o g : f \in ValueFrames, g \in ValueFrames}
    \cup {f \o g \o Frame(BareGetMoveMessage) :
             f \in ValueFrames, g \in ValueFrames}

InitValues ==
    /\ stdin \in ValueStreams
    /\ stdout = <<>>
    /\ pc = "read"
    /\ message = PyNone
    /\ env = QuietEnv
    /\ errlog = <<>>
    /\ events = <<>>
    /\ last = NoLast
    /\ pipe = <<>>
    /\ sent = <<>>
    /\ received = <<>>
    /\ result = NoResult
    /\ relay = NoRelay

SpecValues == InitValues /\ [][Next]_vars

(***************************************************************************)
(* The framing harness: send_message writes to a pipe that read_message    *)
(* reads, in any interleaving.                                             *)
(***************************************************************************)

\* {"command": "getMove", "history": ["11-15", ... 30 times]}: a payload of
\* more than 255 bytes
LongMessage ==
    PyObj(<< <<"command", PyStr("getMove")>>,
             <<"history", PyArr([i \in 1..30 |-> PyStr("11-15")])>> >>)

\* The JSON objects sent through the pipe
FrameMessages ==
    {PyObj(<<>>),
     PyObj(<< <<"move", PyStr("1-5")>> >>),
     PyObj(<< <<"move", PyStr("7\n-11")>>, <<"quote", PyStr("\"\\")>> >>),
     PyObj(<< <<"n", PyNum(0 - 12)>>, <<"ok", PyBool(TRUE)>>, <<"x", PyNone>>,
              <<"o", PyObj(<< <<"a", PyArr(<<PyNum(300), PyStr("")>>)>> >>)>> >>),
     LongMessage}

InitFrame ==
    /\ stdin = <<>>
    /\ stdout = <<>>
    /\ pc = "stopped"
    /\ message = PyNone
    /\ env = QuietEnv
    /\ errlog = <<>>
    /\ events = <<>>
    /\ last = NoLast
    /\ pipe = <<>>
    /\ sent = <<>>
    /\ received = <<>>
    /\ result = NoResult
    /\ relay = NoRelay

\* send_message(m)
SendMessage(m) ==
    /\ Len(sent) < MaxSent
    /\ pipe' = send_message(pipe, m)
    /\ sent' = Append(sent, m)
    /\ UNCHANGED <<mainVars, env, received, result, relay>>

Received(r) ==
    /\ pipe' = r.rest
    /\ received' = Append(received, r.v)

\* read_message(), called when the pipe holds data
ReadMessage ==
    /\ pipe # <<>>
    /\ Received(read_message(pipe))
    /\ UNCHANGED <<mainVars, env, sent, result, relay>>

NextFrame == (\E m \in FrameMessages : SendMessage(m)) \/ ReadMessage

SpecFrame == InitFrame /\ [][NextFrame]_vars

(***************************************************************************)
(* The resolver harness: get_checkerboard_move called in an environment    *)
(***************************************************************************)

\* The environments of the resolver harness
ResolveEnvs ==
    {[QuietEnv EXCEPT !.procRunning = running,
                      !.window = window,
                      !.logs[1] = log1,
                      !.logs[2] = log2,
                      !.regions[1] = region1,
                      !.clipboard = clipboard,
                      !.temps[1] = temp1,
                      !.temps[2] = temp2] :
        running \in BOOLEAN,
        window \in BOOLEAN,
        log1 \in {Absent, Unreadable, File("11-15", FALSE),
                  File("1. 9-13 22-18\n2. 12x19x26 \n", FALSE),
                  File("no move here", FALSE)},
        log2 \in {Absent, File("5-9", FALSE)},
        region1 \in {NoCapture, OcrFails, OcrText(""), OcrText("10-14 23-19"),
                     OcrText("Move: A3-B4"), OcrText("7 - 11"), OcrText("7\n-11")},
        clipboard \in {ClipboardFails, Clipboard("", ""), Clipboard("", "8-12"),
                       Clipboard("8-12", "8-12")},
        temp1 \in {Absent, Unreadable, File("4-8\n", FALSE), File("4-8\n", TRUE),
                   File("none", FALSE)},
        temp2 \in {Absent, File("3-7", FALSE)}}

\* The opponent moves given to the resolver
OpponentMoves == {"12-16", ""}

InitResolve ==
    /\ stdin = <<>>
    /\ stdout = <<>>
    /\ pc = "stopped"
    /\ message = PyNone
    /\ env \in ResolveEnvs
    /\ errlog = <<>>
    /\ events = <<>>
    /\ last = NoLast
    /\ pipe = <<>>
    /\ sent = <<>>
    /\ received = <<>>
    /\ result = NoResult
    /\ relay = NoRelay

ResolveDone(opponent_move, r) ==
    /\ result' = [calls |-> result.calls + 1, op |-> "resolve",
                  opp |-> opponent_move, before |-> env, r |-> r]
    /\ env' = r.env

\* get_checkerboard_move(opponent_move, [])
Resolve(opponent_move) ==
    /\ result.calls < MaxCalls
    /\ ResolveDone(opponent_move, get_checkerboard_move(PyStr(opponent_move), env))
    /\ UNCHANGED <<mainVars, frameVars, relay>>

NextResolve == \E opponent_move \in OpponentMoves : Resolve(opponent_move)

SpecResolve == InitResolve /\ [][NextResolve]_vars

(***************************************************************************)
(* The executor harness: convert_move_to_coordinates,                      *)
(* execute_move_in_checkerboard and get_checkerboard_move called with a    *)
(* move token under a calibration                                          *)
(***************************************************************************)

\* The fields of a move joined by a separator: "12x19x26" for 12, 19, 26
RECURSIVE FormatMove(_, _)
FormatMove(fields, sep) ==
    IF Len(fields) = 1 THEN NatText(fields[1])
    ELSE NatText(Head(fields)) \o sep \o FormatMove(Tail(fields), sep)

\* The fields of the moves executed
FieldLists ==
    {<<12, 16>>, <<12, 19>>, <<7, 11>>, <<26, 19>>, <<12, 19, 26>>,
     <<1, 10, 19, 26>>}

\* Moves of the forms A-B and AxB(xC...)
Tokens ==
    {[fields |-> f, sep |-> "x"] : f \in FieldLists}
    \cup {[fields |-> f, sep |-> "-"] : f \in {g \in FieldLists : Len(g) = 2}}

\* A single field, the empty text, a field that is not a number and squares
\* outside 1..32
MalformedTokens == {"12", "", "a-b", "12-b", "33-34", "0-5"}

ExecuteMoves ==
    {FormatMove(tk.fields, tk.sep) : tk \in Tokens} \cup MalformedTokens

\* The calibrations: none, a file that cannot be read, complete and partial
\* maps, and a map without any square
Calibrations ==
    {Absent, Unreadable, CalibrationWithout({}), CalibrationWithout({1}),
     CalibrationWithout({7}), CalibrationWithout({19}), CalibrationWithout({26}),
     CalibrationWithout(1..32)}

ExecuteEnvs == {[QuietEnv EXCEPT !.calib = c] : c \in Calibrations}

InitExecute ==
    /\ stdin = <<>>
    /\ stdout = <<>>
    /\ pc = "stopped"
    /\ message = PyNone
    /\ env \in ExecuteEnvs
    /\ errlog = <<>>
    /\ events = <<>>
    /\ last = NoLast
    /\ pipe = <<>>
    /\ sent = <<>>
    /\ received = <<>>
    /\ result = NoResult
    /\ relay = NoRelay

\* convert_move_to_coordinates(move)
Convert(move) ==
    /\ result.calls < MaxCalls
    /\ result' = [calls |-> result.calls + 1, op |-> "convert", opp |-> move,
                  before |-> env, r |-> convert_move_to_coordinates(move, env)]
    /\ UNCHANGED <<mainVars, frameVars, env, relay>>

\* execute_move_in_checkerboard(move)
Execute(move) ==
    /\ result.calls < MaxCalls
    /\ result' = [calls |-> result.calls + 1, op |-> "execute", opp |-> move,
                  before |-> env,
                  r |-> execute_move_in_checkerboard(PyStr(move), env)]
    /\ UNCHANGED <<mainVars, frameVars, env, relay>>

\* checkerboard_calibration.json is written, replaced or removed by another
\* program (calibrate_coordinates.py writes it) between two calls
CalibrationChanges(c) ==
    /\ env.calib # c
    /\ env' = [env EXCEPT !.calib = c]
    /\ UNCHANGED <<mainVars, frameVars, result, relay>>

NextExecute ==
    \/ \E move \in ExecuteMoves : Convert(move) \/ Execute(move) \/ Resolve(move)
    \/ \E c \in Calibrations : CalibrationChanges(c)

SpecExecute == InitExecute /\ [][NextExecute]_vars

(***************************************************************************)
(* The locating harness: find_checkerboard_exe called in an environment    *)
(***************************************************************************)

LocateEnvs ==
    {[QuietEnv EXCEPT !.procRunning = running,
                      !.overrideSet = set,
                      !.overrideNamed = named,
                      !.exeAt = at,
                      !.popenOk = ok] :
        running \in BOOLEAN, set \in BOOLEAN, named \in BOOLEAN,
        at \in SUBSET {"override", "programfiles", "programfiles86", "cwd"},
        ok \in BOOLEAN}

InitLocate ==
    /\ stdin = <<>>
    /\ stdout = <<>>
    /\ pc = "stopped"
    /\ message = PyNone
    /\ env \in LocateEnvs
    /\ errlog = <<>>
    /\ events = <<>>
    /\ last = NoLast
    /\ pipe = <<>>
    /\ sent = <<>>
    /\ received = <<>>
    /\ result = NoResult
    /\ relay = NoRelay

Located(exe) ==
    /\ result' = [calls |-> result.calls + 1, op |-> "locate", opp |-> "",
                  before |-> env, r |-> exe]
    /\ env' = AfterLaunch(env, exe.launched)

\* find_checkerboard_exe()
Locate ==
    /\ result.calls < MaxCalls
    /\ Located(find_checkerboard_exe(env))
    /\ UNCHANGED <<mainVars, frameVars, relay>>

SpecLocate == InitLocate /\ [][Locate]_vars

(***************************************************************************)
(* The detection harness: get_engine_move called in an environment         *)
(***************************************************************************)

\* Log files: one whose only token lies before its last 5 lines, one whose
\* token reaches the last 5 lines once the trailing blank lines are
\* stripped, one with several tokens in and before its last 5 lines
LogFiles ==
    {Absent, Unreadable, File("no move here", FALSE),
     File("3-7\na\nb\nc\nd\ne\nf", FALSE),
     File("3-7\na\nb\nc\nd\n\n\n", FALSE),
     File("3-7\n 9-13 22-18\nb\n12x19x26 1-5 \nd\ne\n\n", FALSE)}

\* Recognized texts: several matches of one pattern, matches of two
\* patterns, matches of the third pattern only
RegionStates ==
    {NoCapture, OcrFails, OcrText(""), OcrText("10-14 23-19"),
     OcrText("A3-B4 10-14 C5-D6"), OcrText("Move: A3-B4 7 - 11 C5xD6"),
     OcrText("7 - 11, 8 -12")}

\* The environments of the detection harness: the log files vary, or the
\* window and the regions do, or the clipboard does
DetectEnvs ==
    {[QuietEnv EXCEPT !.logs[1] = log1, !.logs[2] = log2, !.logs[8] = log8,
                      !.regions[1] = region1] :
        log1 \in LogFiles, log2 \in LogFiles,
        log8 \in {Absent, File("6-10", FALSE)},
        region1 \in {OcrText(""), OcrText("10-14 23-19")}}
    \cup
    {[QuietEnv EXCEPT !.window = window,
                      !.regions[1] = region1, !.regions[2] = region2,
                      !.regions[3] = region3, !.regions[4] = region4,
                      !.clipboard = clipboard] :
        window \in BOOLEAN,
        region1 \in RegionStates, region2 \in RegionStates,
        region3 \in {OcrText(""), OcrText("9-14")},
        region4 \in {NoCapture, OcrText("2-6 2-7")},
        clipboard \in {Clipboard("", ""), Clipboard("", "8-12")}}
    \cup
    {[QuietEnv EXCEPT !.regions[1] = region1, !.clipboard = clipboard,
                      !.temps[1] = temp1] :
        region1 \in {OcrText(""), OcrText("10-14 23-19")},
        clipboard \in {ClipboardFails, Clipboard("", ""), Clipboard("", "8-12"),
                       Clipboard("8-12", "8-12"), Clipboard("8-12", "copied text"),
                       Clipboard("8-12", "x 9-13 5-9")},
        temp1 \in {Absent, File("3-7", FALSE)}}

InitDetect ==
    /\ stdin = <<>>
    /\ stdout = <<>>
    /\ pc = "stopped"
    /\ message = PyNone
    /\ env \in DetectEnvs
    /\ errlog = <<>>
    /\ events = <<>>
    /\ last = NoLast
    /\ pipe = <<>>
    /\ sent = <<>>
    /\ received = <<>>
    /\ result = NoResult
    /\ relay = NoRelay

DetectDone(r) ==
    /\ result' = [calls |-> result.calls + 1, op |-> "detect", opp |-> "",
                  before |-> env, r |-> r]
    /\ env' = r.env

\* get_engine_move()
Detect ==
    /\ result.calls < MaxCalls
    /\ DetectDone(get_engine_move(env))
    /\ UNCHANGED <<mainVars, frameVars, relay>>

SpecDetect == InitDetect /\ [][Detect]_vars

(***************************************************************************)
(* The move relay as a server: HTTPServer gives every request to a         *)
(* MoveHandler, one request at a time                                      *)
(***************************************************************************)

\* The most requests sent to the relay
MaxRequests == 2

\* The bodies that hold a move
MoveBodies ==
    {Dumps(PyObj(<< <<"move", PyStr("12-16")>> >>)),
     Dumps(PyObj(<< <<"move", PyStr("9x18")>>, <<"id", PyNum(7)>> >>))}

\* The bodies that are JSON and hold no move
NoMoveBodies ==
    {Dumps(PyObj(<<>>)), Dumps(PyObj(<< <<"move", PyStr("")>> >>)),
     Dumps(PyObj(<< <<"from", PyNum(12)>> >>))}

\* The bodies that are not JSON
BadJsonBodies == {Encode("{"), Encode("move=12-16")}

\* A POST whose Content-Length is the length of its body
Post(body) ==
    [method |-> "POST", hasLength |-> TRUE, length |-> NatText(Len(body)),
     body |-> body]

ValidPosts == {Post(b) : b \in MoveBodies}

\* POSTs without a body (Content-Length 0, or no such header, with or
\* without bytes after the headers)
EmptyPosts ==
    {[method |-> "POST", hasLength |-> TRUE, length |-> "0", body |-> <<>>],
     [method |-> "POST", hasLength |-> FALSE, length |-> "", body |-> <<>>]}
    \cup {[Post(b) EXCEPT !.hasLength = FALSE, !.length = ""] : b \in MoveBodies}

NoMovePosts == {Post(b) : b \in NoMoveBodies}

BadJsonPosts ==
    {Post(b) : b \in BadJsonBodies}
    \cup {[Post(b) EXCEPT !.length = "5"] : b \in MoveBodies}

\* POSTs that make do_POST raise: a JSON value that is no object, and a
\* Content-Length that is no number
RaisingPosts ==
    {Post(Dumps(PyArr(<<PyStr("12-16")>>))),
     [Post(Dumps(PyObj(<<>>))) EXCEPT !.length = "two"]}

Requests ==
    ValidPosts \cup EmptyPosts \cup NoMovePosts \cup BadJsonPosts
    \cup RaisingPosts
    \cup {[method |-> "OPTIONS", hasLength |-> FALSE, length |-> "", body |-> <<>>],
          [method |-> "GET", hasLength |-> FALSE, length |-> "", body |-> <<>>]}

InitHttp ==
    /\ stdin = <<>>
    /\ stdout = <<>>
    /\ pc = "stopped"
    /\ message = PyNone
    /\ env \in {QuietEnv, [QuietEnv EXCEPT !.window = FALSE]}
    /\ errlog = <<>>
    /\ events = <<>>
    /\ last = NoLast
    /\ pipe = <<>>
    /\ sent = <<>>
    /\ received = <<>>
    /\ result = NoResult
    /\ relay = NoRelay

\* The server handles one request
Serve(request) ==
    /\ Len(relay.responses) < MaxRequests
    /\ relay' = Served(relay, request, handle_one_request(request))
    /\ UNCHANGED <<mainVars, frameVars, env, result>>

NextHttp == \E request \in Requests : Serve(request)

SpecHttp == InitHttp /\ [][NextHttp]_vars

(***************************************************************************)
(* The functions of the move relay: do_POST called with a handler, and the *)
(* threads it starts, in any interleaving                                  *)
(***************************************************************************)

\* do_POST(handler), the handler holding this request
CallPost(request) ==
    /\ Len(relay.responses) < MaxRequests
    /\ relay' = Served(relay, request, do_POST(request))
    /\ UNCHANGED <<mainVars, frameVars, env, result>>

\* A thread of run_move_sequence takes its next step
WorkerStep(w) ==
    /\ relay.workers[w].at # "done"
    /\ relay' = run_move_sequence(relay, w, env.window)
    /\ UNCHANGED <<mainVars, frameVars, env, result>>

NextRelay ==
    \/ \E request \in Requests : CallPost(request)
    \/ \E w \in 1..Len(relay.workers) : WorkerStep(w)

SpecRelay == InitHttp /\ [][NextRelay]_vars

(***************************************************************************)
(* Properties                                                              *)
(***************************************************************************)

\* The move grammar \d{1,2}[-x]\d{1,2}(x\d{1,2})* from position j of t on,
\* after the second number
RECURSIVE IsJumpTail(_, _)
IsJumpTail(t, j) ==
    \/ j = Len(t) + 1
    \/ /\ Ch(t, j) = "x"
       /\ \E n \in 1..2 :
            /\ j + n <= Len(t)
            /\ \A i \in j + 1..j + n : IsDigitAt(t, i)
            /\ IsJumpTail(t, j + n + 1)

\* t is a move token: the whole of t matches \d{1,2}[-x]\d{1,2}(x\d{1,2})*
IsMoveToken(t) ==
    \E a \in 1..2, b \in 1..2 :
        /\ a + b + 1 <= Len(t)
        /\ \A i \in 1..a : IsDigitAt(t, i)
        /\ Ch(t, a + 1) \in {"-", "x"}
        /\ \A i \in a + 2..a + b + 1 : IsDigitAt(t, i)
        /\ IsJumpTail(t, a + b + 2)

\* v is a request the loop answers: a non-empty object whose command is getMove
IsGetMove(v) ==
    IsDict(v) /\ Truthy(v) /\ DictGet(v, "command", PyNone) = PyStr("getMove")

LastEvent == events[Len(events)]

\* The message of read event i has been through the loop body
Handled(i) == events[i].e = "read" /\ (i < Len(events) \/ pc # "handle")

\* The responses sent for the message of read event i
ResponsesTo(i) ==
    IF i < Len(events) /\ events[i + 1].e = "send" THEN <<events[i + 1].resp>>
    ELSE <<>>

\* The responses of the send events, in order
RECURSIVE ResponsesSent(_)
ResponsesSent(evs) ==
    IF Len(evs) = 0 THEN <<>>
    ELSE (IF Head(evs).e = "send" THEN <<Head(evs).resp>> ELSE <<>>)
         \o ResponsesSent(Tail(evs))

\* The values a reader obtains from a byte stream, up to its end
RECURSIVE ReadAll(_)
ReadAll(bs) ==
    IF Len(bs) = 0 THEN <<>>
    ELSE <<read_message(bs).v>> \o ReadAll(read_message(bs).rest)

\* C1: when read_message finds end-of-stream on standard input, the loop
\* stops at once: nothing is written, no error is logged and main returns,
\* whatever was handled before.
ExitsOnEndOfStream ==
    [][(pc = "read" /\ stdin = <<>>)
        => (pc' = "stopped" /\ stdout' = stdout /\ errlog' = errlog
            /\ stdin' = <<>>)]_vars

\* Two requests were answered, a third message was handled, and the loop
\* stopped at end-of-stream without an error
ExitsOnEndOfStreamWitness ==
    /\ pc = "stopped"
    /\ Len(events) >= 6
    /\ LastEvent.e = "read"
    /\ LastEvent.eof
    /\ errlog = <<>>
    /\ Len(ReadAll(stdout)) = 2

\* C2 (as the specification states it): a frame that cannot be read does not
\* stop the loop, so the loop never stops after a read error while a
\* well-formed getMove frame is next on standard input.
ContinuesAfterMalformedFrame ==
    ~(/\ pc = "stopped"
      /\ Len(events) > 0
      /\ LastEvent.e = "read"
      /\ LastEvent.err
      /\ IsGetMove(read_message(stdin).v))

\* The bytes hold one frame per message of msgs, in order, and nothing else:
\* each frame is a length of 4 bytes, least significant first, equal to the
\* number of bytes of the JSON text, followed by exactly that text
RECURSIVE WellFramed(_, _)
WellFramed(bs, msgs) ==
    IF Len(msgs) = 0 THEN Len(bs) = 0
    ELSE LET text == Dumps(Head(msgs))
         IN  /\ Len(bs) >= 4 + Len(text)
             /\ \A i \in 1..4 : bs[i] \in 0..255
             /\ bs[1] + 256 * bs[2] + 65536 * bs[3] + 16777216 * bs[4] = Len(text)
             /\ SubSeq(bs, 5, 4 + Len(text)) = text
             /\ WellFramed(SubSeq(bs, 5 + Len(text), Len(bs)), Tail(msgs))

\* C3: the framing round-trips.  The values read are the objects sent, in
\* order, and the bytes not read yet are exactly the frames of the objects
\* not read yet, so that each read consumed exactly one frame.
FramingRoundTrips ==
    /\ Len(received) <= Len(sent)
    /\ received = SubSeq(sent, 1, Len(received))
    /\ WellFramed(pipe, SubSeq(sent, Len(received) + 1, Len(sent)))

\* Three objects, one of more than 255 bytes, were sent and read back
FramingRoundTripsWitness ==
    /\ Len(received) = 3
    /\ received[2] = LongMessage
    /\ received[1] # received[3]
    /\ Len(Dumps(LongMessage)) > 255
    /\ pipe = <<>>

\* C4: each getMove request yields exactly one response and no response is
\* sent for anything else; the responses are written in the order of the
\* requests, each before the next frame is read, and standard output holds
\* exactly their frames, each an object {move: <text>}.
OneResponsePerRequest ==
    /\ \A i \in 1..Len(events) :
         events[i].e = "send" =>
            /\ i > 1
            /\ events[i - 1].e = "read"
            /\ events[i - 1].k = events[i].k
            /\ IsGetMove(events[i - 1].msg)
            /\ IsDict(events[i].resp)
            /\ Len(events[i].resp.o) = 1
            /\ DictGet(events[i].resp, "move", PyNone).t = "str"
    /\ \A i \in 1..Len(events) :
         (Handled(i) /\ IsGetMove(events[i].msg)) => Len(ResponsesTo(i)) = 1
    /\ ReadAll(stdout) = ResponsesSent(events)

\* Three getMove requests were answered, not all with the same move
OneResponsePerRequestWitness ==
    /\ Len(events) = 6
    /\ Len(ReadAll(stdout)) = 3
    /\ ReadAll(stdout)[1] # ReadAll(stdout)[2]
    /\ pc = "read"

\* The last call of the resolver reached get_engine_move
DetectionRan == result.calls > 0 /\ Len(result.r.steps) > 3

\* The methods the last call of the resolver ran, in order
Tried == SubSeq(result.r.steps, 4, Len(result.r.steps))

MethodNames == <<"log", "screen", "clipboard", "temp">>

\* What each detection method finds in environment e, taken alone
Sources(e) ==
    <<scan_log_files(e.logs, 1), detect_move_from_screen(e),
      monitor_clipboard_for_move(e), scan_temp_files(e.temps, 1).move>>

\* Whether each detection method meets a failure in environment e: a file
\* that cannot be read or removed, no window, a capture or an OCR run that
\* fails, a clipboard that cannot be read
Failures(e) ==
    <<\E i \in 1..Len(e.logs) : e.logs[i] = Unreadable,
      ~e.window \/ \E i \in 1..Len(e.regions) : e.regions[i].st \in {"nocapture", "ocrfail"},
      e.clipboard.st = "fail",
      \E i \in 1..Len(e.temps) :
          e.temps[i] = Unreadable \/ (e.temps[i].st = "file" /\ e.temps[i].locked)>>

\* C5 (as the specification states it): the resolver returns in every
\* branch a non-empty token that matches the move grammar, the moves
\* recovered by screen OCR included.
ResolverReturnsMoveToken ==
    result.calls > 0 =>
        (result.r.move.t = "str" /\ IsMoveToken(result.r.move.s))

\* No engine can be reached: no process runs and no executable exists
NoEngine(e) == ~e.procRunning /\ e.exeAt = {}

UnknownCommandAnsweredWithError ==
    \A i \in 1..Len(events) :
        (Handled(i) /\ events[i].msg = UnknownCommandMessage) =>
            /\ Len(ResponsesTo(i)) = 1
            /\ DictGet(ResponsesTo(i)[1], "type", PyNone) = PyStr("error")
            /\ DictGet(ResponsesTo(i)[1], "message", PyNone)
                 = PyStr("Unknown command: ping")

\* C8: get_engine_move consults the log files, the screen, the clipboard
\* and the temp files in this order and returns the move of the first
\* method that yields one; the methods after it are not run.
DetectionInPriorityOrder ==
    DetectionRan =>
        \A k \in 1..4 :
            (/\ Sources(result.before)[k] # PyNone
             /\ \A j \in 1..k - 1 : Sources(result.before)[j] = PyNone) =>
                /\ result.r.move = Sources(result.before)[k]
                /\ Tried = SubSeq(MethodNames, 1, k)

\* Every method had a move to give, all different, and the one of the log
\* file was returned
DetectionInPriorityOrderWitness ==
    /\ DetectionRan
    /\ Sources(result.before) =
         <<PyStr("11-15"), PyStr("23-19"), PyStr("8-12"), PyStr("4-8")>>
    /\ result.r.move = PyStr("11-15")
    /\ Tried = <<"log">>

\* C9: a method that fails is treated as having found nothing: the methods
\* after it are still run, and the result is the move of the first method
\* that yields one.
DetectionSurvivesFailures ==
    DetectionRan =>
        \A k \in 1..4 :
            (/\ Failures(result.before)[k]
             /\ \A j \in 1..k - 1 : Sources(result.before)[j] = PyNone) =>
                \A m \in k..4 :
                    (\A j \in k..m - 1 : Sources(result.before)[j] = PyNone) =>
                        /\ MethodNames[m] \in {Tried[n] : n \in 1..Len(Tried)}
                        /\ Sources(result.before)[m] # PyNone =>
                              result.r.move = Sources(result.before)[m]

\* The first log file and the first temp file could not be read, there was
\* no window and no clipboard, and the move of the second temp file was
\* returned
DetectionSurvivesFailuresWitness ==
    /\ DetectionRan
    /\ result.before.logs[1] = Unreadable
    /\ ~result.before.window
    /\ result.before.clipboard = ClipboardFails
    /\ result.before.temps[1] = Unreadable
    /\ result.before.temps[2] = File("3-7", FALSE)
    /\ result.r.move = PyStr("3-7")
    /\ Tried = MethodNames

\* C10: when get_engine_move is reached and none of the four methods yields
\* a move, the request is answered with the default move "1-5", and the
\* loop goes on: the next frame is read and later getMove requests are
\* answered.
DefaultMoveWhenNothingDetected ==
    \A i \in 1..Len(events) :
        (/\ events[i].e = "send"
         /\ Len(get_checkerboard_move(
                    DictGet(events[i - 1].msg, "currentMove", PyStr("")),
                    events[i].env).steps) > 3
         /\ \A k \in 1..4 : Sources(events[i].env)[k] = PyNone) =>
            /\ events[i].resp = PyObj(<< <<"move", PyStr("1-5")>> >>)
            /\ ReadAll(stdout)[Len(ResponsesSent(SubSeq(events, 1, i)))]
                 = PyObj(<< <<"move", PyStr("1-5")>> >>)
            /\ i = Len(events) => pc = "read"
            /\ i < Len(events) => events[i + 1].e = "read"
            /\ \A j \in i + 1..Len(events) :
                 (Handled(j) /\ IsGetMove(events[j].msg)) => Len(ResponsesTo(j)) = 1

\* With the engine running and nothing to detect, a request was answered
\* with the default move, and so was the request after it
DefaultMoveWhenNothingDetectedWitness ==
    /\ env = QuietEnv
    /\ Len(events) = 4
    /\ events[1].msg = GetMoveMessage("12-16")
    /\ events[2].e = "send"
    /\ events[2].env = QuietEnv
    /\ events[4].e = "send"
    /\ ReadAll(stdout) = << PyObj(<< <<"move", PyStr("1-5")>> >>),
                            PyObj(<< <<"move", PyStr("1-5")>> >>) >>

\* The last call of the executor harness was `op` with the move of token tk
Called(op, tk) ==
    /\ result.calls > 0
    /\ result.op = op
    /\ result.opp = FormatMove(tk.fields, tk.sep)

\* The squares of the calibration the last call ran under
Calibrated == DOMAIN load_calibration_data(result.before)

\* The coordinates of a square under that calibration
Coordinates(n) == load_calibration_data(result.before)[n]

\* C11: executing a move whose fields f1..fk are all in the calibration map
\* succeeds and clicks exactly k times, on f1, ..., fk in this order
ExecutorClicksEveryField ==
    \A tk \in Tokens :
        (/\ Called("execute", tk)
         /\ \A i \in 1..Len(tk.fields) : tk.fields[i] \in Calibrated) =>
            /\ result.r.ok
            /\ result.r.clicks =
                  [i \in 1..Len(tk.fields) |-> Coordinates(tk.fields[i])]

ExecutorClicksEveryFieldWitness ==
    /\ result.calls > 0
    /\ result.op = "execute"
    /\ result.opp = "12x19x26"
    /\ result.before.calib = CalibrationWithout({7})
    /\ result.r.ok
    /\ result.r.clicks =
          <<DefaultPosition(12), DefaultPosition(19), DefaultPosition(26)>>

\* C12: executing a move whose origin or destination is missing from the
\* calibration map returns failure, logs an error and clicks nothing
MissingEndpointFails ==
    \A tk \in Tokens :
        (/\ Called("execute", tk)
         /\ \/ tk.fields[1] \notin Calibrated
            \/ tk.fields[Len(tk.fields)] \notin Calibrated) =>
            /\ ~result.r.ok
            /\ result.r.clicks = <<>>
            /\ \E i \in 1..Len(result.r.errors) : result.r.errors[i] = "execute"

MissingEndpointFailsWitness ==
    /\ result.calls > 0
    /\ result.op = "execute"
    /\ result.opp = "7x11"
    /\ result.before.calib = CalibrationWithout({7})
    /\ ~result.r.ok
    /\ result.r.clicks = <<>>
    /\ result.r.errors = <<"execute">>

\* C13: a malformed opponent token (a single field, the empty text, a field
\* that is not a number, a square outside 1..32) is rejected: the executor
\* fails and clicks nothing, and the resolver returns the default move without
\* a click
MalformedTokenRejected ==
    \A t \in MalformedTokens :
        (result.calls > 0 /\ result.opp = t) =>
            /\ result.op = "execute" => (~result.r.ok /\ result.r.clicks = <<>>)
            /\ result.op = "resolve" =>
                  (result.r.move = DefaultMove /\ result.r.clicks = <<>>)

\* The coordinates of a square under the calibration of the last call, <<>>
\* for a square that calibration lacks
CoordinatesOrNone(n) == IF n \in Calibrated THEN Coordinates(n) ELSE <<>>

\* The fields i..j of a token, as the texts they are written as
FieldTexts(tk, i, j) == [n \in 1..(j - i + 1) |-> NatText(tk.fields[n + i - 1])]

\* C14 as stated: parsing a token yields the first field as origin, the last
\* field as destination and only the fields between them as captures
\* ("12x19x26" gives the captures 19; a token of two fields gives none)
ParseYieldsInteriorCaptures ==
    \A tk \in Tokens :
        (Called("convert", tk) /\ Calibrated # {}) =>
            /\ result.r.ok
            /\ result.r.from = CoordinatesOrNone(tk.fields[1])
            /\ result.r.to = CoordinatesOrNone(tk.fields[Len(tk.fields)])
            /\ result.r.jumps = FieldTexts(tk, 2, Len(tk.fields) - 1)

\* C14, amended: converting a token A-B or AxB(xC...) under a calibration map
\* that is not empty yields the coordinates of the first field as origin, the
\* coordinates of the last field as destination, and as jumps all the fields
\* after the first, the destination included, in order and as text, when the
\* token has more than two fields; a token of two fields has no jumps
ParseYieldsJumpsWithDestination ==
    \A tk \in Tokens :
        (Called("convert", tk) /\ Calibrated # {}) =>
            /\ result.r.ok
            /\ result.r.from = CoordinatesOrNone(tk.fields[1])
            /\ result.r.to = CoordinatesOrNone(tk.fields[Len(tk.fields)])
            /\ result.r.jumps = IF Len(tk.fields) > 2
                                THEN FieldTexts(tk, 2, Len(tk.fields))
                                ELSE <<>>

ParseYieldsJumpsWithDestinationWitness ==
    /\ result.calls > 0
    /\ result.op = "convert"
    /\ result.opp = "12x19x26"
    /\ result.before.calib = CalibrationWithout({19})
    /\ result.r.from = DefaultPosition(12)
    /\ result.r.to = DefaultPosition(26)
    /\ result.r.jumps = <<"19", "26">>

\* C15: over the getMove requests of a session the connector launches the
\* engine at most once: it never launches it again while a process it
\* launched earlier is alive (the processes launched stay alive)
AtMostOneEngineLaunched == Len(env.launches) <= 1

\* C20: when the next frame on standard input has the length prefix 0, the
\* loop reads the prefix and no payload and stops without an error: no error
\* is logged and nothing is written
ZeroLengthFrameStopsQuietly ==
    [][(pc = "read" /\ Len(stdin) >= 4 /\ Take(stdin, 4) = ZeroLengthFrame)
        => (/\ pc' = "stopped"
            /\ stdin' = Drop(stdin, 4)
            /\ stdout' = stdout
            /\ errlog' = errlog)]_vars

\* The candidate paths that exist in an environment, by their place in the
\* list
Existing(e) == {i \in 1..5 : PathExists(e, i)}

\* C16: with no engine running, locating launches the first candidate of the
\* ordered list that exists, the path of CHECKERBOARD_PATH being the first of
\* the list: a candidate is launched only if none before it exists, one
\* candidate at most is launched per call, and when no candidate exists
\* nothing is launched and the engine is reported as not located
LocateLaunchesFirstExisting ==
    (result.calls > 0 /\ result.op = "locate") =>
        /\ result.r.launched # 0 =>
              /\ result.r.found
              /\ ~result.before.procRunning
              /\ result.r.launched \in Existing(result.before)
              /\ \A j \in Existing(result.before) : result.r.launched <= j
        /\ (/\ ~result.before.procRunning
            /\ Existing(result.before) # {}
            /\ result.before.popenOk) => result.r.launched # 0
        /\ (~result.before.procRunning /\ Existing(result.before) = {}) =>
              (~result.r.found /\ result.r.launched = 0)
        /\ env.launches =
              result.before.launches \o
              (IF result.r.launched = 0 THEN <<>> ELSE <<result.r.launched>>)

\* CHECKERBOARD_PATH is set and does not exist; the second candidate does not
\* exist either: the third is launched, the fourth and fifth are not
LocateLaunchesFirstExistingWitness ==
    /\ result.calls = 1
    /\ result.op = "locate"
    /\ result.before.overrideSet
    /\ result.before.exeAt = {"programfiles86", "cwd"}
    /\ result.r.found
    /\ result.r.launched = 3
    /\ env.launches = <<3>>

\* The requests handled so far that are in a set of requests
ServedFrom(requests) ==
    {i \in 1..Len(relay.responses) : relay.responses[i].request \in requests}

\* C17: a POST whose JSON body holds a non-empty move is answered with status
\* 200 and the body {"status": "ok"}, while the automation runs in a worker
\* of its own; every POST is answered with status 200, 400 or 500
ValidPostAnswered ==
    /\ \A i \in 1..Len(relay.responses) :
          relay.responses[i].request.method = "POST" =>
              relay.responses[i].response.status \in {200, 400, 500}
    /\ \A i \in ServedFrom(ValidPosts) :
          /\ relay.responses[i].response.status = 200
          /\ relay.responses[i].response.obj =
                PyObj(<< <<"status", PyStr("ok")>> >>)
    /\ Len(relay.workers) = Cardinality(ServedFrom(ValidPosts))

\* C18: a POST with Content-Length 0 or without Content-Length, a POST whose
\* body is not JSON and a POST whose body holds no move are answered with
\* status 400 and an error message, and start no worker
InvalidPostRejected ==
    /\ \A i \in ServedFrom(EmptyPosts \cup BadJsonPosts \cup NoMovePosts) :
          /\ relay.responses[i].response.status = 400
          /\ IsDict(relay.responses[i].response.obj)
          /\ Truthy(DictGet(relay.responses[i].response.obj, "error", PyNone))
    /\ Len(relay.workers) <=
          Cardinality(ServedFrom(Requests \ (EmptyPosts \cup BadJsonPosts
                                              \cup NoMovePosts)))

WaitedForEngine ==
    /\ result.calls > 0
    /\ result.before.procRunning
    /\ Len(result.r.steps) >= 3
    /\ result.r.steps[3] = "wait"

CalibrationLoadedOnce ==
    [][(/\ result.calls > 0
        /\ result.op = "execute"
        /\ result'.calls = result.calls + 1
        /\ result'.op = "execute"
        /\ result'.opp = result.opp)
        => result'.r.clicks = result.r.clicks]_vars

\* The last call was a call of get_engine_move
Detecting == result.calls > 0 /\ result.op = "detect"

Highest(S) == CHOOSE i \in S : \A j \in S : j <= i

Lowest(S) == CHOOSE i \in S : \A j \in S : i <= j

\* The lines of a log file that hold a move token, among its last 5
TokenLines(lines) ==
    {i \in 1..Len(lines) :
        i > Len(lines) - 5 /\ search_move(Strip(lines[i])) # PyNone}

LatestToken(lines) ==
    IF TokenLines(lines) = {} THEN PyNone
    ELSE search_move(Strip(lines[Highest(TokenLines(lines))]))

\* The first move token of the latest of the last 5 lines of a log file that
\* holds one; None when the file cannot be read or has no such line
LogYield(file) ==
    IF file.st = "file" THEN LatestToken(Split(Strip(file.text), "\n"))
    ELSE PyNone

\* The candidate log files that yield a move
YieldingLogs(logs) == {i \in 1..Len(logs) : LogYield(logs[i]) # PyNone}

\* C23: log-file detection returns the first move token of the latest line
\* that holds a token among the last 5 lines of the first candidate log file,
\* in path order, that exists and has such a line; lines before the last 5
\* never contribute and a file without a token in its last 5 lines is
\* skipped.  When no candidate has such a line the detection goes on to the
\* screen.
LogDetectionTakesLatestLine ==
    Detecting =>
        IF YieldingLogs(result.before.logs) = {}
        THEN Len(result.r.tried) > 1 /\ result.r.tried[2] = "screen"
        ELSE /\ result.r.tried = <<"log">>
             /\ result.r.move =
                    LogYield(result.before.logs[Lowest(YieldingLogs(result.before.logs))])

LogDetectionTakesLatestLineWitness ==
    /\ Detecting
    /\ result.before.logs[1] = File("3-7\na\nb\nc\nd\ne\nf", FALSE)
    /\ result.before.logs[2] = File("3-7\n 9-13 22-18\nb\n12x19x26 1-5 \nd\ne\n\n", FALSE)
    /\ result.before.logs[8] = File("6-10", FALSE)
    /\ result.r.move = PyStr("12x19x26")
    /\ result.r.tried = <<"log">>

\* The move patterns (1 numeric, 2 algebraic, 3 spaced numeric) that match
\* somewhere in a text
PatternsMatching(text) == {p \in 1..3 : FindAll(p, text) # <<>>}

LastOf(matches) == matches[Len(matches)]

\* The last match, spaces removed, of the first pattern that matches in the
\* recognized text of a region; None when the capture or the OCR failed or
\* no pattern matches
RegionYield(region) ==
    IF region.st = "text" /\ PatternsMatching(region.text) # {}
    THEN PyStr(RemoveSpaces(LastOf(FindAll(Lowest(PatternsMatching(region.text)),
                                           region.text))))
    ELSE PyNone

\* The regions (1 top, 2 bottom, 3 right, 4 left) that yield a move
YieldingRegions(regions) ==
    {i \in 1..Len(regions) : RegionYield(regions[i]) # PyNone}

ScreenYield(e) ==
    IF e.window /\ YieldingRegions(e.regions) # {}
    THEN RegionYield(e.regions[Lowest(YieldingRegions(e.regions))])
    ELSE PyNone

\* The last call of get_engine_move ran the screen detection
ScreenTried == Detecting /\ Len(result.r.tried) > 1

\* C24: screen detection examines the regions in the order top, bottom,
\* right, left and returns, for the first region with any match, the last
\* match (spaces removed) of the first of the patterns numeric, algebraic,
\* spaced numeric that matches; a region whose capture or OCR fails or that
\* has no match is skipped, and without a target window the screen yields no
\* move, so that the detection goes on to the clipboard
ScreenDetectionTakesFirstRegion ==
    ScreenTried =>
        IF ScreenYield(result.before) = PyNone
        THEN Len(result.r.tried) > 2 /\ result.r.tried[3] = "clipboard"
        ELSE /\ result.r.tried = <<"log", "screen">>
             /\ result.r.move = ScreenYield(result.before)

ScreenDetectionTakesFirstRegionWitness ==
    /\ ScreenTried
    /\ result.before.window
    /\ result.before.regions[1] = OcrFails
    /\ result.before.regions[2] = OcrText("Move: A3-B4 7 - 11 C5xD6")
    /\ result.before.regions[3] = OcrText("9-14")
    /\ result.r.move = PyStr("C5xD6")
    /\ result.r.tried = <<"log", "screen">>

\* The last call of the resolver ran the temp-file detection
TempTried == DetectionRan /\ Tried = MethodNames

\* The temp files that hold a move token and can be removed
ConsumableTemps(temps) ==
    {i \in 1..Len(temps) :
        /\ temps[i].st = "file"
        /\ ~temps[i].locked
        /\ search_move(Strip(temps[i].text)) # PyNone}

\* C25: temp-file detection consumes what it returns: a move taken from a
\* temp file is returned only with that file deleted; a file whose deletion
\* fails yields no move and the next temp path is tried; a temp file without
\* a move token, and every temp file other than the one returned, is left in
\* place
TempDetectionConsumes ==
    TempTried =>
        IF ConsumableTemps(result.before.temps) = {}
        THEN /\ result.r.move = DefaultMove
             /\ result.r.env.temps = result.before.temps
        ELSE /\ result.r.move =
                    search_move(Strip(result.before.temps[
                        Lowest(ConsumableTemps(result.before.temps))].text))
             /\ result.r.env.temps =
                    [result.before.temps EXCEPT
                        ![Lowest(ConsumableTemps(result.before.temps))] = Absent]

TempDetectionConsumesWitness ==
    /\ TempTried
    /\ result.before.temps[1] = File("4-8\n", TRUE)
    /\ result.before.temps[2] = File("3-7", FALSE)
    /\ result.r.move = PyStr("3-7")
    /\ result.r.env.temps[1] = File("4-8\n", TRUE)
    /\ result.r.env.temps[2] = Absent

\* The last call of get_engine_move ran the clipboard detection
ClipboardTried == Detecting /\ Len(result.r.tried) > 2

\* The clipboard could be read, and what it held after the wait differs from
\* what it held before
ClipboardChanged(c) == c.st = "ok" /\ c.after # c.before

\* C26: clipboard detection returns a move only if the content read after
\* the wait differs from the content read before it and holds a move token,
\* and then returns the first token of the new content; a clipboard that
\* does not change, even one holding a valid token, yields no move and the
\* detection goes on to the temp files
ClipboardYieldsOnlyOnChange ==
    ClipboardTried =>
        IF /\ ClipboardChanged(result.before.clipboard)
           /\ search_move(result.before.clipboard.after) # PyNone
        THEN /\ result.r.tried = <<"log", "screen", "clipboard">>
             /\ result.r.move = search_move(result.before.clipboard.after)
        ELSE result.r.tried = MethodNames

ClipboardYieldsOnlyOnChangeWitness ==
    /\ ClipboardTried
    /\ result.before.clipboard = Clipboard("8-12", "8-12")
    /\ result.before.temps[1] = Absent
    /\ result.r.tried = MethodNames
    /\ result.r.move = PyNone

\* The last call was a call of the resolver
Resolving == result.calls > 0 /\ result.op = "resolve"

\* What find_checkerboard_exe does in the environment of the last call, and
\* the environment it leaves
Locating == find_checkerboard_exe(result.before)

LocatedEnv == AfterLaunch(result.before, Locating.launched)

\* The detection sources are as they were before the last call
SourcesUntouched ==
    /\ result.r.env.logs = result.before.logs
    /\ result.r.env.regions = result.before.regions
    /\ result.r.env.clipboard = result.before.clipboard
    /\ result.r.env.temps = result.before.temps

\* C27: the resolver runs locate/launch, execute, wait, detect in this order
\* and the first failing step ends the resolution with the default "1-5":
\* when the engine cannot be located only the locating step runs and nothing
\* is clicked; when the opponent move cannot be executed the steps end with
\* the execution, no detection method runs and no temp file is deleted;
\* otherwise the wait and then the detection follow
FirstFailingStepEndsResolution ==
    Resolving =>
        IF ~Locating.found
        THEN /\ result.r.steps = <<"find">>
             /\ result.r.clicks = <<>>
             /\ result.r.move = DefaultMove
             /\ SourcesUntouched
        ELSE IF ~execute_move_in_checkerboard(PyStr(result.opp), LocatedEnv).ok
        THEN /\ result.r.steps = <<"find", "execute">>
             /\ result.r.move = DefaultMove
             /\ SourcesUntouched
        ELSE /\ SubSeq(result.r.steps, 1, 3) = <<"find", "execute", "wait">>
             /\ Len(result.r.steps) > 3
             /\ result.r.steps[4] = "log"

FirstFailingStepEndsResolutionWitness ==
    /\ Resolving
    /\ result.before.procRunning
    /\ result.opp = ""
    /\ result.before.logs[1] = File("11-15", FALSE)
    /\ result.before.temps[1] = File("4-8\n", FALSE)
    /\ result.r.steps = <<"find", "execute">>
    /\ result.r.move = DefaultMove
    /\ result.r.env.temps[1] = File("4-8\n", FALSE)

\* C28: the main loop stops only at end of stream or on an unreadable
\* frame: it is never stopped after reading a correctly framed message whose
\* payload is valid JSON, the values {}, [], 0, false and null included, so
\* that a getMove frame that follows is still read and answered
ValidJsonNeverStopsLoop ==
    ~(/\ pc = "stopped"
      /\ Len(events) > 0
      /\ LastEvent.e = "read"
      /\ ~LastEvent.eof
      /\ ~LastEvent.err)

\* C29: execute reports success only if every square of the move was
\* clicked: for a move of more than two fields whose origin and destination
\* are calibrated and one of whose hop squares is missing from the
\* calibration map, execute does not return true
PartialChainNotReportedAsSuccess ==
    \A tk \in Tokens :
        (/\ Called("execute", tk)
         /\ Len(tk.fields) > 2
         /\ tk.fields[1] \in Calibrated
         /\ tk.fields[Len(tk.fields)] \in Calibrated
         /\ \E i \in 2..Len(tk.fields) - 1 : tk.fields[i] \notin Calibrated) =>
            ~result.r.ok

\* A log file, the screen or the clipboard yields a move in environment e
EarlierSourceYields(e) == \E k \in 1..3 : Sources(e)[k] # PyNone

\* C30: detection stops at the first success and leaves the later sources
\* untouched: when a log file, the screen or the clipboard yields the move,
\* the temp-file method does not run and the temp files are as before the
\* call; and no call changes or deletes a log file
DetectionLeavesLaterSources ==
    Resolving =>
        /\ result.r.env.logs = result.before.logs
        /\ (DetectionRan /\ EarlierSourceYields(result.before)) =>
              /\ \A k \in 1..Len(Tried) : Tried[k] # "temp"
              /\ result.r.env.temps = result.before.temps
              /\ result.r.move = Sources(result.before)[Len(Tried)]

DetectionLeavesLaterSourcesWitness ==
    /\ Resolving
    /\ DetectionRan
    /\ result.before.logs[1] = File("no move here", FALSE)
    /\ result.before.clipboard = Clipboard("", "8-12")
    /\ result.before.temps[1] = File("4-8\n", FALSE)
    /\ result.r.move = PyStr("8-12")
    /\ Tried = <<"log", "screen", "clipboard">>
    /\ result.r.env.temps[1] = File("4-8\n", FALSE)
    /\ result.r.env.logs[1] = File("no move here", FALSE)

=============================================================================
